---- MODULE Spec2Model ----
(***************************************************************************)
(* Model of the price-enrichment application (src/app.js): the identifier  *)
(* resolver, the price-series lookup, the change-rate calculator and the   *)
(* batch orchestrator, together with the file handlers that share the      *)
(* module-level state (parsedData, closingPrices, errorMessages,           *)
(* isFetching).                                                            *)
(*                                                                         *)
(* Conventions.                                                            *)
(*  - A JavaScript string is a sequence of one-character strings.          *)
(*  - A nullable value is Null (= <<>>) or Some(v) (= <<v>>).              *)
(*  - One step of the model is one task of the event loop: a handler or a  *)
(*    callback together with every microtask continuation it triggers.     *)
(*  - Closes of a reply are integers in hundredths and its dividend amounts *)
(*    in thousandths; prices of a result are in tenths, its dividend in    *)
(*    hundredths and its change rates in hundredths of a percent.          *)
(***************************************************************************)
EXTENDS Integers, Sequences, FiniteSets, TLC

VARIABLES
    parsedData,          \* app.js:12  Null or Some([metadata, header, rows])
    closingPrices,       \* app.js:13  function rawCode -> EnrichedResult
    errorMessages,       \* app.js:14  sequence of ErrorRecord
    isFetching,          \* app.js:15
    fetchBtnDisabled,    \* dom.fetchBtn.disabled
    downloadBtnDisabled, \* dom.downloadBtn.disabled
    stocks,              \* fetchAllPrices: the StockRef list of the run
    i,                   \* fetchAllPrices: loop variable (0-based offset)
    completed,           \* fetchAllPrices: completion counter
    pending,             \* indices (1-based) of lookups awaiting the network
    pc,                  \* position of fetchAllPrices: idle/awaiting/pacing
    progress,            \* last updateProgress(current, total) of the run
    issued,              \* history: index -> number of fetchClosingPrice calls
    batches,             \* history: batches dispatched in the run
    delays,              \* history: sleep() calls in the run
    lastEvent,           \* history: the handler that ran last
    summary,             \* history: Null or Some(counts showResults gave the run)
    emitted,             \* history: the updateProgress calls of the run
    replies,             \* history: index -> Null or Some(reply received)
    runs,                \* history: runs started, counted up to MaxRuns
    call,                \* function under test: the call and its arguments
    returned             \* function under test: Null or Some(value returned)

vars == <<parsedData, closingPrices, errorMessages, isFetching,
          fetchBtnDisabled, downloadBtnDisabled, stocks, i, completed,
          pending, pc, progress, issued, batches, delays, lastEvent,
          summary, emitted, replies, runs, call, returned>>

\* the state of the application, and the variables of a function under test
appVars == <<parsedData, closingPrices, errorMessages, isFetching,
             fetchBtnDisabled, downloadBtnDisabled, stocks, i, completed,
             pending, pc, progress, issued, batches, delays, lastEvent,
             summary, emitted, replies, runs>>
callVars == <<call, returned>>

-----------------------------------------------------------------------------
(* Values *)

Null == <<>>
Some(v) == <<v>>
\* JavaScript's undefined and NaN, encoded as tuples that are neither Null nor
\* Some(v) for any v
Undefined == <<0, 0>>
NaN == <<0, 0, 0>>
IsNumber(x) == Len(x) = 1

BATCH_SIZE == 5

\* Bounds of the model.
MaxStocks == 11      \* unique identifiers of the largest file
MaxRuns == 2         \* runs are counted up to this number
MaxDays == 3         \* days of a series given to a function under test
MaxCloses == 4       \* closes given to findPriceNTradingDaysBack
MaxIdLen == 5        \* characters of an identifier between its margins
MaxRows == 3         \* rows given to getUniqueStocks
MaxEvents == 3       \* dividend events of a response
MaxExportRows == 2   \* rows of a data set given to generateOutputCSV
MaxCellLen == 2      \* characters of a cell of a data set exported and parsed

Min(a, b) == IF a < b THEN a ELSE b
Abs(x) == IF x < 0 THEN -x ELSE x

Digits == <<"0", "1", "2", "3", "4", "5", "6", "7", "8", "9">>
DigitSet == {Digits[k] : k \in 1..10}
UpperSet == {"A", "B", "C", "D", "E", "F", "G", "H", "I", "J", "K", "L", "M",
             "N", "O", "P", "Q", "R", "S", "T", "U", "V", "W", "X", "Y", "Z"}
LowerSet == {"a", "b", "c", "d", "e", "f", "g", "h", "i", "j", "k", "l", "m",
             "n", "o", "p", "q", "r", "s", "t", "u", "v", "w", "x", "y", "z"}
AlphaNum == DigitSet \cup UpperSet \cup LowerSet
WhiteSpace == {" ", "\t", "\n", "\r"}

DigitVal(c) == (CHOOSE k \in 1..10 : Digits[k] = c) - 1

\* String.prototype.trim
RECURSIVE TrimLeft(_)
TrimLeft(s) ==
    IF s # <<>> /\ Head(s) \in WhiteSpace THEN TrimLeft(Tail(s)) ELSE s

RECURSIVE TrimRight(_)
TrimRight(s) ==
    IF s # <<>> /\ s[Len(s)] \in WhiteSpace
    THEN TrimRight(SubSeq(s, 1, Len(s) - 1))
    ELSE s

Trim(s) == TrimRight(TrimLeft(s))

-----------------------------------------------------------------------------
(* Identifier Resolver *)

\* variant: the first four characters are not tested
toTickerWithoutAlnumCheck(rawCode) ==
    LET code == Trim(rawCode)
        ticker == SubSeq(code, 1, 4)
    IN  IF Len(code) < 4 THEN Null
        ELSE Some(ticker \o <<".", "T">>)

\* variant: the four characters are taken from the untrimmed cell
toTickerUntrimmed(rawCode) ==
    LET code == Trim(rawCode)
        ticker == SubSeq(rawCode, 1, 4)
    IN  IF Len(code) < 4 THEN Null
        ELSE IF \E k \in 1..4 : ticker[k] \notin AlphaNum THEN Null
        ELSE Some(ticker \o <<".", "T">>)

\* toTicker(rawCode)
toTicker(rawCode) ==
    LET code == Trim(rawCode)
        ticker == SubSeq(code, 1, 4)
    IN  IF Len(code) < 4 THEN Null
        ELSE IF \E k \in 1..4 : ticker[k] \notin AlphaNum THEN Null
        ELSE Some(ticker \o <<".", "T">>)

\* row[idx] with a 0-based idx; undefined (here Null) beyond the row
Cell(row, idx) == IF idx + 1 <= Len(row) THEN Some(row[idx + 1]) ELSE Null

\* variant: a later row with an identifier already seen replaces its entry
RECURSIVE getUniqueStocksFromLastWins(_, _, _, _)
getUniqueStocksFromLastWins(rows, codeColIdx, dateColIdx, seen) ==
    IF rows = <<>> THEN seen
    ELSE
        LET row == Head(rows)
            rest == Tail(rows)
        IN  IF Len(row) <= codeColIdx
            THEN getUniqueStocksFromLastWins(rest, codeColIdx, dateColIdx, seen)
            ELSE
                LET rawCode == row[codeColIdx + 1]
                    code == Trim(rawCode)
                    dateCell == Cell(row, dateColIdx)
                    date == IF dateCell = Null THEN <<>> ELSE dateCell[1]
                    entry == [ticker |-> toTicker(rawCode), date |-> date,
                              rawCode |-> code]
                IN  IF code = <<>>
                    THEN getUniqueStocksFromLastWins(rest, codeColIdx,
                                                     dateColIdx, seen)
                    ELSE IF \E k \in 1..Len(seen) : seen[k].rawCode = code
                    THEN getUniqueStocksFromLastWins(rest, codeColIdx,
                            dateColIdx,
                            [k \in 1..Len(seen) |->
                                IF seen[k].rawCode = code THEN entry
                                ELSE seen[k]])
                    ELSE getUniqueStocksFromLastWins(rest, codeColIdx,
                            dateColIdx, Append(seen, entry))

\* variant: an identifier without ticker is left out
RECURSIVE getUniqueStocksFromResolvableOnly(_, _, _, _)
getUniqueStocksFromResolvableOnly(rows, codeColIdx, dateColIdx, seen) ==
    IF rows = <<>> THEN seen
    ELSE
        LET row == Head(rows)
            rest == Tail(rows)
        IN  IF Len(row) <= codeColIdx
            THEN getUniqueStocksFromResolvableOnly(rest, codeColIdx,
                                                   dateColIdx, seen)
            ELSE
                LET rawCode == row[codeColIdx + 1]
                    code == Trim(rawCode)
                    dateCell == Cell(row, dateColIdx)
                    date == IF dateCell = Null THEN <<>> ELSE dateCell[1]
                IN  IF \/ code = <<>>
                       \/ toTicker(rawCode) = Null
                       \/ \E k \in 1..Len(seen) : seen[k].rawCode = code
                    THEN getUniqueStocksFromResolvableOnly(rest, codeColIdx,
                                                           dateColIdx, seen)
                    ELSE getUniqueStocksFromResolvableOnly(rest, codeColIdx,
                            dateColIdx,
                            Append(seen, [ticker |-> toTicker(rawCode),
                                          date |-> date,
                                          rawCode |-> code]))

\* getUniqueStocks(rows, codeColIdx, dateColIdx): the loop over rows, with
\* `seen` kept as the insertion-ordered list of its values
RECURSIVE getUniqueStocksFrom(_, _, _, _)
getUniqueStocksFrom(rows, codeColIdx, dateColIdx, seen) ==
    IF rows = <<>> THEN seen
    ELSE
        LET row == Head(rows)
            rest == Tail(rows)
        IN  IF Len(row) <= codeColIdx
            THEN getUniqueStocksFrom(rest, codeColIdx, dateColIdx, seen)
            ELSE
                LET rawCode == row[codeColIdx + 1]
                    code == Trim(rawCode)
                    dateCell == Cell(row, dateColIdx)
                    date == IF dateCell = Null THEN <<>> ELSE dateCell[1]
                IN  IF code = <<>> \/ \E k \in 1..Len(seen) : seen[k].rawCode = code
                    THEN getUniqueStocksFrom(rest, codeColIdx, dateColIdx, seen)
                    ELSE getUniqueStocksFrom(rest, codeColIdx, dateColIdx,
                            Append(seen, [ticker |-> toTicker(rawCode),
                                          date |-> date,
                                          rawCode |-> code]))

getUniqueStocks(rows, codeColIdx, dateColIdx) ==
    getUniqueStocksFrom(rows, codeColIdx, dateColIdx, <<>>)

-----------------------------------------------------------------------------
(* Dates.  new Date("YYYY-MM-DD") is midnight UTC of that day; an argument  *)
(* of another shape gives an invalid date, whose getTime() is NaN.  The    *)
(* local time zone of getFullYear/getMonth/getDate is taken to be UTC.     *)

FloorDiv(a, b) == IF b > 0 THEN a \div b ELSE (-a) \div (-b)

IsLeap(y) == (y % 4 = 0 /\ y % 100 # 0) \/ y % 400 = 0

DaysInMonth(y, m) ==
    IF m = 2 THEN (IF IsLeap(y) THEN 29 ELSE 28)
    ELSE IF m \in {4, 6, 9, 11} THEN 30 ELSE 31

DaysFromCivil(y, m, d) ==
    LET yy == IF m <= 2 THEN y - 1 ELSE y
        era == yy \div 400
        yoe == yy - era * 400
        mp == IF m > 2 THEN m - 3 ELSE m + 9
        doy == (153 * mp + 2) \div 5 + d - 1
        doe == yoe * 365 + yoe \div 4 - yoe \div 100 + doy
    IN  era * 146097 + doe - 719468

CivilFromDays(days) ==
    LET z == days + 719468
        era == z \div 146097
        doe == z - era * 146097
        yoe == (doe - doe \div 1460 + doe \div 36524 - doe \div 146096) \div 365
        doy == doe - (365 * yoe + yoe \div 4 - yoe \div 100)
        mp == (5 * doy + 2) \div 153
        d == doy - (153 * mp + 2) \div 5 + 1
        m == IF mp < 10 THEN mp + 3 ELSE mp - 9
        y == yoe + era * 400 + (IF m <= 2 THEN 1 ELSE 0)
    IN  <<y, m, d>>

\* Math.floor(new Date(targetDateStr.replace(/\//g, '-')).getTime() / 1000):
\* Some(seconds), or NaN for an invalid date
targetTsOf(targetDateStr) ==
    LET s == targetDateStr
        wellFormed ==
            /\ Len(s) = 10
            /\ s[5] \in {"/", "-"} /\ s[8] \in {"/", "-"}
            /\ \A k \in {1, 2, 3, 4, 6, 7, 9, 10} : s[k] \in DigitSet
        y == DigitVal(s[1]) * 1000 + DigitVal(s[2]) * 100
                + DigitVal(s[3]) * 10 + DigitVal(s[4])
        m == DigitVal(s[6]) * 10 + DigitVal(s[7])
        d == DigitVal(s[9]) * 10 + DigitVal(s[10])
    IN  IF ~wellFormed THEN NaN
        ELSE IF m \notin 1..12 \/ d \notin 1..DaysInMonth(y, m) THEN NaN
        ELSE Some(DaysFromCivil(y, m, d) * 86400)

\* String(n).padStart(2, '0') for 0 <= n <= 99
Pad2(n) == <<Digits[(n \div 10) + 1], Digits[(n % 10) + 1]>>

\* the decimal digits of a natural number
RECURSIVE NatString(_)
NatString(n) ==
    IF n < 10 THEN <<Digits[n + 1]>>
    ELSE Append(NatString(n \div 10), Digits[(n % 10) + 1])

\* the template `${getFullYear()}/${month}/${day}` of a timestamp in seconds
formattedDateOf(ts) ==
    LET c == CivilFromDays(FloorDiv(ts, 86400))
        y == c[1]
    IN  <<Digits[((y \div 1000) % 10) + 1], Digits[((y \div 100) % 10) + 1],
          Digits[((y \div 10) % 10) + 1], Digits[(y % 10) + 1]>>
        \o <<"/">> \o Pad2(c[2]) \o <<"/">> \o Pad2(c[3])

-----------------------------------------------------------------------------
(* Price Series Lookup and Change-Rate Calculator *)

\* closes[idx] with a 0-based idx: an element (Null or Some(close)), or
\* Undefined beyond the end of the array
CloseAt(closes, idx) ==
    IF idx >= 0 /\ idx + 1 <= Len(closes) THEN closes[idx + 1] ELSE Undefined

\* variant: the first loop compares absolute differences, so a later day
\* can win over a day on or before the target
RECURSIVE OnOrBeforeLoopAbsolute(_, _, _, _, _)
OnOrBeforeLoopAbsolute(timestamps, closes, targetTs, k, best) ==
    IF k >= Len(timestamps) THEN best
    ELSE IF CloseAt(closes, k) = Null
         THEN OnOrBeforeLoopAbsolute(timestamps, closes, targetTs, k + 1, best)
    ELSE LET diff == Abs(targetTs - timestamps[k + 1])
         IN  IF best[2] = Null \/ diff < best[2][1]
             THEN OnOrBeforeLoopAbsolute(timestamps, closes, targetTs, k + 1,
                                         <<k, Some(diff)>>)
             ELSE OnOrBeforeLoopAbsolute(timestamps, closes, targetTs, k + 1,
                                         best)

\* first loop of findClosestPriceWithIndex, from index k on; best is
\* <<bestIdx, bestDiff>> with bestDiff = Null for Infinity
RECURSIVE OnOrBeforeLoop(_, _, _, _, _)
OnOrBeforeLoop(timestamps, closes, targetTs, k, best) ==
    IF k >= Len(timestamps) THEN best
    ELSE IF CloseAt(closes, k) = Null
         THEN OnOrBeforeLoop(timestamps, closes, targetTs, k + 1, best)
    ELSE LET diff == targetTs - timestamps[k + 1]
         IN  IF diff >= 0 /\ (best[2] = Null \/ diff < best[2][1])
             THEN OnOrBeforeLoop(timestamps, closes, targetTs, k + 1,
                                 <<k, Some(diff)>>)
             ELSE OnOrBeforeLoop(timestamps, closes, targetTs, k + 1, best)

\* variant: the second loop does not compare differences, so the last day
\* with a close wins
RECURSIVE AbsoluteLoopLastFound(_, _, _, _, _)
AbsoluteLoopLastFound(timestamps, closes, targetTs, k, best) ==
    IF k >= Len(timestamps) THEN best
    ELSE IF CloseAt(closes, k) = Null
         THEN AbsoluteLoopLastFound(timestamps, closes, targetTs, k + 1, best)
    ELSE AbsoluteLoopLastFound(timestamps, closes, targetTs, k + 1,
                               <<k, Some(Abs(targetTs - timestamps[k + 1]))>>)

\* second loop of findClosestPriceWithIndex
RECURSIVE AbsoluteLoop(_, _, _, _, _)
AbsoluteLoop(timestamps, closes, targetTs, k, best) ==
    IF k >= Len(timestamps) THEN best
    ELSE IF CloseAt(closes, k) = Null
         THEN AbsoluteLoop(timestamps, closes, targetTs, k + 1, best)
    ELSE LET diff == Abs(targetTs - timestamps[k + 1])
         IN  IF best[2] = Null \/ diff < best[2][1]
             THEN AbsoluteLoop(timestamps, closes, targetTs, k + 1,
                               <<k, Some(diff)>>)
             ELSE AbsoluteLoop(timestamps, closes, targetTs, k + 1, best)

\* variant: there is no second loop
findClosestPriceWithIndexNoFallback(timestamps, closes, targetTs) ==
    LET best == IF IsNumber(targetTs)
                THEN OnOrBeforeLoop(timestamps, closes, targetTs[1], 0,
                                    <<-1, Null>>)
                ELSE <<-1, Null>>
        bestIdx == best[1]
    IN  [price |-> IF bestIdx >= 0 THEN CloseAt(closes, bestIdx) ELSE Null,
         index |-> bestIdx]

\* findClosestPriceWithIndex(timestamps, closes, targetTs); targetTs is
\* Some(seconds) or NaN, and every comparison with a NaN difference is false
findClosestPriceWithIndex(timestamps, closes, targetTs) ==
    LET first == IF IsNumber(targetTs)
                 THEN OnOrBeforeLoop(timestamps, closes, targetTs[1], 0,
                                     <<-1, Null>>)
                 ELSE <<-1, Null>>
        best == IF first[1] = -1 /\ IsNumber(targetTs)
                THEN AbsoluteLoop(timestamps, closes, targetTs[1], 0, first)
                ELSE first
        bestIdx == best[1]
    IN  [price |-> IF bestIdx >= 0 THEN CloseAt(closes, bestIdx) ELSE Null,
         index |-> bestIdx]

\* variant: days without a close are counted too
RECURSIVE TradingDaysBackLoopCountsNull(_, _, _, _)
TradingDaysBackLoopCountsNull(closes, k, count, n) ==
    IF k < 0 THEN Null
    ELSE IF count + 1 = n THEN CloseAt(closes, k)
    ELSE TradingDaysBackLoopCountsNull(closes, k - 1, count + 1, n)

\* findPriceNTradingDaysBack(closes, baseIdx, n): the loop from index k down
RECURSIVE TradingDaysBackLoop(_, _, _, _)
TradingDaysBackLoop(closes, k, count, n) ==
    IF k < 0 THEN Null
    ELSE IF CloseAt(closes, k) = Null
         THEN TradingDaysBackLoop(closes, k - 1, count, n)
    ELSE IF count + 1 = n THEN CloseAt(closes, k)
    ELSE TradingDaysBackLoop(closes, k - 1, count + 1, n)

findPriceNTradingDaysBack(closes, baseIdx, n) ==
    TradingDaysBackLoop(closes, baseIdx - 1, 0, n)

\* Math.round(a / b) for integers a, b with b # 0: floor(a / b + 1/2)
RoundDiv(a, b) == FloorDiv(2 * a + b, 2 * b)

\* variant: a past price of 0 is divided by, which gives Infinity or NaN
calcChangeRateWithoutZeroCheck(currentPrice, pastPrice) ==
    IF currentPrice = Null \/ pastPrice = Null THEN Null
    ELSE IF ~IsNumber(currentPrice) \/ ~IsNumber(pastPrice) THEN NaN
    ELSE IF pastPrice = Some(0) THEN NaN
    ELSE Some(RoundDiv((currentPrice[1] - pastPrice[1]) * 10000, pastPrice[1]))

\* calcChangeRate(currentPrice, pastPrice); operands in hundredths, result in
\* hundredths of a percent
calcChangeRate(currentPrice, pastPrice) ==
    IF currentPrice = Null \/ pastPrice = Null \/ pastPrice = Some(0) THEN Null
    ELSE IF ~IsNumber(currentPrice) \/ ~IsNumber(pastPrice) THEN NaN
    ELSE Some(RoundDiv((currentPrice[1] - pastPrice[1]) * 10000, pastPrice[1]))

\* variant: only the events on or before the target are looked at
RECURSIVE DividendLoopOnOrBefore(_, _, _, _)
DividendLoopOnOrBefore(dividends, targetTs, k, best) ==
    IF k > Len(dividends) THEN best
    ELSE LET diff == Abs(targetTs - dividends[k].ts)
         IN  IF dividends[k].ts <= targetTs
                    /\ (best[1] = Null \/ diff < best[1][1])
             THEN DividendLoopOnOrBefore(dividends, targetTs, k + 1,
                               <<Some(diff), Some(dividends[k].amount)>>)
             ELSE DividendLoopOnOrBefore(dividends, targetTs, k + 1, best)

\* the dividend loop of fetchClosingPrice over Object.entries(dividends),
\* which lists the integer-like keys in ascending order; best is
\* <<closestDivDiff, dividendAmount>>
RECURSIVE DividendLoop(_, _, _, _)
DividendLoop(dividends, targetTs, k, best) ==
    IF k > Len(dividends) THEN best
    ELSE LET diff == Abs(targetTs - dividends[k].ts)
         IN  IF best[1] = Null \/ diff < best[1][1]
             THEN DividendLoop(dividends, targetTs, k + 1,
                               <<Some(diff), Some(dividends[k].amount)>>)
             ELSE DividendLoop(dividends, targetTs, k + 1, best)

nullResult ==
    [price |-> Null, dividend |-> Null, actualDate |-> Null, change1d |-> Null,
     change7d |-> Null, change14d |-> Null, change30d |-> Null, error |-> Null]

\* variant: a failed lookup reports price 0 instead of null
WithErrorZeroPrice(msg) ==
    [nullResult EXCEPT !.error = Some(msg), !.price = Some(0)]

\* `{ ...nullResult, error: msg }`
WithError(msg) == [nullResult EXCEPT !.error = Some(msg)]

\* Upstream replies.  kind "reject": fetch() rejects with an error whose
\* message is msg; "http": a response with the given status; "badjson":
\* response.json() rejects with message msg; "body": the parsed body, where
\* hasResult says whether chart.result[0] exists, timestamp and close are
\* result.timestamp and indicators.quote[0].close ([] when absent) and
\* dividends is Null when events.dividends is absent.
Reply(kind, status, msg, hasResult, timestamp, close, dividends) ==
    [kind |-> kind, status |-> status, msg |-> msg, hasResult |-> hasResult,
     timestamp |-> timestamp, close |-> close, dividends |-> dividends]

\* the part of fetchClosingPrice after the series has been extracted
SeriesResult(targetTs, timestamps, closes, dividends) ==
    LET found == findClosestPriceWithIndex(timestamps, closes, targetTs)
        currentPrice == found.price
        baseIdx == found.index
        change(n) ==
            calcChangeRate(currentPrice,
                           findPriceNTradingDaysBack(closes, baseIdx, n))
        dividendAmount ==
            IF dividends = Null THEN Null
            ELSE IF ~IsNumber(targetTs) THEN Null
            ELSE DividendLoop(dividends[1], targetTs[1], 1, <<Null, Null>>)[2]
    IN  IF currentPrice = Null \/ baseIdx = -1 THEN WithError("no valid close")
        ELSE [price |-> IF IsNumber(currentPrice)
                        THEN Some(RoundDiv(currentPrice[1], 10))
                        ELSE NaN,
              dividend |-> IF dividendAmount # Null
                           THEN Some(RoundDiv(dividendAmount[1], 10))
                           ELSE Null,
              actualDate |-> Some(formattedDateOf(timestamps[baseIdx + 1])),
              change1d |-> change(1),
              change7d |-> change(5),
              change14d |-> change(10),
              change30d |-> change(21),
              error |-> Null]

\* variant: the lookup does not test its ticker and goes to the upstream
fetchClosingPriceWithoutTickerCheck(ticker, targetDateStr, reply) ==
    IF reply.kind = "reject" THEN WithError(reply.msg)
    ELSE IF reply.kind = "http" THEN WithError("HTTP " \o ToString(reply.status))
    ELSE IF reply.kind = "badjson" THEN WithError(reply.msg)
    ELSE IF ~reply.hasResult THEN WithError("no data")
    ELSE IF Len(reply.timestamp) = 0 \/ Len(reply.close) = 0
         THEN WithError("no chart data")
    ELSE SeriesResult(targetTsOf(targetDateStr), reply.timestamp, reply.close,
                      reply.dividends)

\* fetchClosingPrice(ticker, targetDateStr) when the upstream answers reply
fetchClosingPrice(ticker, targetDateStr, reply) ==
    IF ticker = Null THEN WithError("invalid ticker")
    ELSE IF reply.kind = "reject" THEN WithError(reply.msg)
    ELSE IF reply.kind = "http" THEN WithError("HTTP " \o ToString(reply.status))
    ELSE IF reply.kind = "badjson" THEN WithError(reply.msg)
    ELSE IF ~reply.hasResult THEN WithError("no data")
    ELSE IF Len(reply.timestamp) = 0 \/ Len(reply.close) = 0
         THEN WithError("no chart data")
    ELSE SeriesResult(targetTsOf(targetDateStr), reply.timestamp, reply.close,
                      reply.dividends)

\* `${n}` of an integer n
IntegerString(n) == (IF n < 0 THEN <<"-">> ELSE <<>>) \o NatString(Abs(n))

\* `${x}` of targetTs plus an offset: NaN plus anything is NaN
PeriodText(targetTs, offset) ==
    IF IsNumber(targetTs) THEN IntegerString(targetTs[1] + offset)
    ELSE <<"N", "a", "N">>

\* variant: the window opens 30 days before the target
requestOfMonthBefore(ticker, targetDateStr) ==
    IF ticker = Null THEN Null
    ELSE LET targetTs == targetTsOf(targetDateStr)
         IN  Some([ticker |-> ticker[1],
                   period1 |-> PeriodText(targetTs, -(30 * 86400)),
                   period2 |-> PeriodText(targetTs, 14 * 86400),
                   interval |-> <<"1", "d">>,
                   events |-> <<"d", "i", "v">>])

\* The request fetchClosingPrice(ticker, targetDateStr) sends: Null when it
\* returns before the fetch, else the path segment and the query parameters
\* of apiUrl as the template writes them
requestOf(ticker, targetDateStr) ==
    IF ticker = Null THEN Null
    ELSE LET targetTs == targetTsOf(targetDateStr)
         IN  Some([ticker |-> ticker[1],
                   period1 |-> PeriodText(targetTs, -(45 * 86400)),
                   period2 |-> PeriodText(targetTs, 14 * 86400),
                   interval |-> <<"1", "d">>,
                   events |-> <<"d", "i", "v">>])

\* `if (result.error)`: null and the empty string are falsy
Truthy(error) == error # Null /\ error # Some("")

-----------------------------------------------------------------------------
(* Model inputs: the files a user can load and what the upstream can answer *)

DateCell(y, m, d) ==
    <<Digits[((y \div 1000) % 10) + 1], Digits[((y \div 100) % 10) + 1],
      Digits[((y \div 10) % 10) + 1], Digits[(y % 10) + 1]>>
    \o <<"/">> \o Pad2(m) \o <<"/">> \o Pad2(d)

\* a data row: four date columns and the identifier column (index 4)
Row(date0, date1, code) == <<date0, date1, date1, date1, code>>

\* the k-th generated identifier, "kk000 " (ticker kk00.T)
GenCode(k) == Pad2(k) \o <<"0", "0", "0", " ">>

ShortCode == <<"A", "B", "1">>

GenRow(k) ==
    Row(DateCell(2024, 1, 10), DateCell(2024, 1, 10),
        IF k = 2 THEN ShortCode ELSE GenCode(k))

\* three identifiers in four rows: a duplicate with another date, an
\* identifier that is too short, surrounding whitespace
SmallFile ==
    [metadata |-> << <<"m", "e", "t", "a">> >>,
     header |-> << <<"K", "J", "B">>, <<"d", "1">>, <<"d", "2">>, <<"d", "3">>,
                   <<"c", "o", "d", "e">> >>,
     rows |-> << Row(DateCell(2024, 1, 10), DateCell(2024, 1, 12),
                     <<"8", "2", "2", "7", "0", " ">>),
                 Row(DateCell(2024, 1, 10), DateCell(2024, 1, 10), ShortCode),
                 Row(DateCell(2024, 1, 9), DateCell(2024, 1, 9),
                     <<" ", "8", "2", "2", "7", "0">>),
                 Row(DateCell(2024, 1, 10), DateCell(2024, 1, 10),
                     <<"7", "2", "0", "3">>) >>]

\* n identifiers in n rows, the second one too short for a ticker
GenFile(n) ==
    [metadata |-> <<>>,
     header |-> SmallFile.header,
     rows |-> [k \in 1..n |-> GenRow(k)]]

\* the name of the accessor of Object.prototype that holds an object's
\* prototype
ProtoName == <<"_", "_", "p", "r", "o", "t", "o", "_", "_">>

\* the identifiers of one full batch, the second one the name of the
\* prototype accessor (without ticker, as its first four characters are not
\* all alphanumeric)
ProtoFile ==
    [GenFile(BATCH_SIZE) EXCEPT
        !.rows[2] = Row(DateCell(2024, 1, 10), DateCell(2024, 1, 10),
                        ProtoName)]

Files == {SmallFile, ProtoFile, GenFile(MaxStocks)}

\* `const codeColIdx = 4`
CodeColumn == 4

\* the date columns the user can select
DateColumns == {0, 1}

SecondsPerDay == 86400
BaseTs == DaysFromCivil(2024, 1, 10) * SecondsPerDay
DayTs(offset) == BaseTs + offset * SecondsPerDay

BodyReply(hasResult, timestamp, close, dividends) ==
    Reply("body", 200, "", hasResult, timestamp, close, dividends)

HealthyReply ==
    BodyReply(TRUE, <<DayTs(-3), DayTs(-2), DayTs(-1), DayTs(1)>>,
              <<Some(10000), Null, Some(11000), Some(12345)>>,
              Some(<< [ts |-> DayTs(-2), amount |-> 2505],
                      [ts |-> DayTs(5), amount |-> 1000] >>))

FutureOnlyReply ==
    BodyReply(TRUE, <<DayTs(3)>>, <<Some(9995)>>, Null)

AllNullReply ==
    BodyReply(TRUE, <<DayTs(-1), DayTs(0)>>, <<Null, Null>>, Null)

ShortCloseReply ==
    BodyReply(TRUE, <<DayTs(-2), DayTs(-1)>>, <<Some(9000)>>, Null)

EmptySeriesReply == BodyReply(TRUE, <<>>, <<>>, Null)

NoResultReply == BodyReply(FALSE, <<>>, <<>>, Null)

HttpReply(status) == Reply("http", status, "", FALSE, <<>>, <<>>, Null)

RejectReply(msg) == Reply("reject", 0, msg, FALSE, <<>>, <<>>, Null)

BadJsonReply == Reply("badjson", 200, "Unexpected token", FALSE, <<>>, <<>>, Null)

AllReplies ==
    {HealthyReply, FutureOnlyReply, AllNullReply, ShortCloseReply,
     EmptySeriesReply, NoResultReply, HttpReply(404), HttpReply(500),
     RejectReply("Failed to fetch"), RejectReply(""), BadJsonReply}

\* What the upstream can answer for a ticker: anything for the first
\* identifier of SmallFile, a healthy series or a transport failure for its
\* last one, for the first generated one and for the seventh (which is in
\* the second batch), a healthy series otherwise.
RepliesFor(ticker) ==
    IF ticker = Some(<<"8", "2", "2", "7", ".", "T">>) THEN AllReplies
    ELSE IF ticker = Some(<<"7", "2", "0", "3", ".", "T">>)
         THEN {HealthyReply, HttpReply(500)}
    ELSE IF ticker = Some(<<"0", "1", "0", "0", ".", "T">>)
         THEN {HealthyReply, RejectReply("")}
    ELSE IF ticker = Some(<<"0", "7", "0", "0", ".", "T">>)
         THEN {HealthyReply, HttpReply(404)}
    ELSE {HealthyReply}

-----------------------------------------------------------------------------
(* CSV parser and CSV export.  A text is the sequence of its characters    *)
(* (UTF-16 code units).                                                    *)

NAText == <<"N", "/", "A">>

\* Array.prototype.join(sep) of an array of strings
RECURSIVE Join(_, _)
Join(strs, sep) ==
    IF strs = <<>> THEN <<>>
    ELSE IF Len(strs) = 1 THEN strs[1]
    ELSE strs[1] \o sep \o Join(Tail(strs), sep)

\* text.split(/\r?\n/): the lines lie between the line feeds, and one
\* carriage return right before a line feed belongs to the separator
SplitLines(text) ==
    LET feeds == {k \in 1..Len(text) : text[k] = "\n"}
        feed(n) == CHOOSE k \in feeds :
                        Cardinality({q \in feeds : q < k}) = n - 1
        from(n) == IF n = 1 THEN 1 ELSE feed(n - 1) + 1
        upto(n) == IF n = Cardinality(feeds) + 1 THEN Len(text)
                   ELSE IF feed(n) > from(n) /\ text[feed(n) - 1] = "\r"
                   THEN feed(n) - 2
                   ELSE feed(n) - 1
    IN  [n \in 1..(Cardinality(feeds) + 1) |-> SubSeq(text, from(n), upto(n))]

\* str.startsWith(prefix)
StartsWith(str, prefix) ==
    Len(str) >= Len(prefix) /\ SubSeq(str, 1, Len(prefix)) = prefix

\* one iteration of the loop of parseCSVRows, at character k (1-based);
\* st holds rows, currentRow, currentField and inQuote, and skip tells that
\* the iteration before has stepped over this character (its i++)
parseCSVRowsStep(text, k, st) ==
    LET ch == text[k]
    IN  IF st.skip THEN [st EXCEPT !.skip = FALSE]
        ELSE IF st.inQuote
        THEN IF ch = "\""
             THEN IF k + 1 <= Len(text) /\ text[k + 1] = "\""
                  THEN [st EXCEPT !.currentField = Append(@, "\""),
                                  !.skip = TRUE]
                  ELSE [st EXCEPT !.inQuote = FALSE]
             ELSE [st EXCEPT !.currentField = Append(@, ch)]
        ELSE IF ch = "\"" THEN [st EXCEPT !.inQuote = TRUE]
        ELSE IF ch = ","
             THEN [st EXCEPT !.currentRow = Append(@, st.currentField),
                             !.currentField = <<>>]
        ELSE IF ch = "\r" THEN st
        ELSE IF ch = "\n"
             THEN [st EXCEPT !.rows = Append(@, Append(st.currentRow,
                                                       st.currentField)),
                             !.currentRow = <<>>,
                             !.currentField = <<>>]
        ELSE [st EXCEPT !.currentField = Append(@, ch)]

\* the iterations lo..hi of the loop, in order: the first half, then the
\* second half from the state the first half ends in (the test of skip makes
\* the evaluation of the first half come first)
RECURSIVE parseCSVRowsLoop(_, _, _, _)
parseCSVRowsLoop(text, lo, hi, st) ==
    IF lo > hi THEN st
    ELSE IF lo = hi THEN parseCSVRowsStep(text, lo, st)
    ELSE LET half == parseCSVRowsLoop(text, lo, (lo + hi) \div 2, st)
         IN  IF half.skip \in BOOLEAN
             THEN parseCSVRowsLoop(text, ((lo + hi) \div 2) + 1, hi, half)
             ELSE half

\* rows.filter(row => row.some(f => f.trim() !== ''))
RECURSIVE FilterBlankRows(_)
FilterBlankRows(rows) ==
    IF rows = <<>> THEN <<>>
    ELSE IF \E c \in 1..Len(Head(rows)) : Trim(Head(rows)[c]) # <<>>
    THEN <<Head(rows)>> \o FilterBlankRows(Tail(rows))
    ELSE FilterBlankRows(Tail(rows))

\* parseCSVRows(text)
parseCSVRows(text) ==
    LET st == parseCSVRowsLoop(text, 1, Len(text),
                [rows |-> <<>>, currentRow |-> <<>>, currentField |-> <<>>,
                 inQuote |-> FALSE, skip |-> FALSE])
    IN  FilterBlankRows(
            IF st.currentField # <<>> \/ Len(st.currentRow) > 0
            THEN Append(st.rows, Append(st.currentRow, st.currentField))
            ELSE st.rows)

\* the three characters a header line starts with (ki-jun-bi), each
\* Japanese character written as one letter
HeaderMark == <<"K", "J", "B">>

\* h.replace(/\n/g, '')
RECURSIVE WithoutLineFeeds(_)
WithoutLineFeeds(str) ==
    IF str = <<>> THEN <<>>
    ELSE IF Head(str) = "\n" THEN WithoutLineFeeds(Tail(str))
    ELSE <<Head(str)>> \o WithoutLineFeeds(Tail(str))

\* what parseCSV hands back: the parsed data, or the message of the Error
\* it throws
Parsed(metadata, header, rows) ==
    [threw |-> Null, metadata |-> metadata, header |-> header, rows |-> rows]
Thrown(message) ==
    [threw |-> Some(message), metadata |-> <<>>, header |-> <<>>,
     rows |-> <<>>]

\* parseCSV(text)
parseCSV(text) ==
    LET allLines == SplitLines(text)
        starts == {k \in 1..Min(10, Len(allLines)) :
                        StartsWith(allLines[k], HeaderMark)}
    IN  IF starts = {} THEN Thrown("header line not found")
        ELSE
            LET headerStart == CHOOSE k \in starts : \A q \in starts : k <= q
                metadata == SubSeq(allLines, 1, headerStart - 1)
                remaining == Join(SubSeq(allLines, headerStart, Len(allLines)),
                                  <<"\n">>)
                allRows == parseCSVRows(remaining)
            IN  IF Len(allRows) < 2 THEN Thrown("no data rows")
                ELSE Parsed(metadata,
                            [c \in 1..Len(allRows[1]) |->
                                WithoutLineFeeds(allRows[1][c])],
                            Tail(allRows))

\* String(x) of a number x = v / scale with scale 10 or 100: the shortest
\* decimal, without trailing zeros and without a point for an integer
NumberString(v, scale) ==
    LET whole == NatString(Abs(v) \div scale)
        frac == Abs(v) % scale
        digits == IF scale = 10 THEN <<Digits[frac + 1]>>
                  ELSE IF frac % 10 = 0 THEN <<Digits[(frac \div 10) + 1]>>
                  ELSE Pad2(frac)
    IN  (IF v < 0 THEN <<"-">> ELSE <<>>)
            \o whole \o (IF frac = 0 THEN <<>> ELSE <<".">> \o digits)

\* String(value) of a value that is not null; scale as in NumberString
StringOf(value, scale) ==
    IF value = Undefined
    THEN <<"u", "n", "d", "e", "f", "i", "n", "e", "d">>
    ELSE IF value = NaN THEN <<"N", "a", "N">>
    ELSE NumberString(value[1], scale)

\* x.toFixed(2) of x = v / 100
ToFixed2(v) ==
    (IF v < 0 THEN <<"-">> ELSE <<>>)
        \o NatString(Abs(v) \div 100) \o <<".">> \o Pad2(Abs(v) % 100)

\* (dividend / price * 100).toFixed(2), dividend in hundredths and price in
\* tenths, price > 0: toFixed rounds to the nearest hundredth, a tie away
\* from zero
YieldText(dividend, price) ==
    LET q == RoundDiv(Abs(dividend) * 1000, price)
    IN  (IF dividend < 0 THEN <<"-">> ELSE <<>>)
            \o NatString(q \div 100) \o <<".">> \o Pad2(q % 100)

\* the names of the members an object literal inherits, among the
\* identifiers of the files
InheritedNames == {<<"c", "o", "n", "s", "t", "r", "u", "c", "t", "o", "r">>}

\* a member inherited from Object.prototype: truthy, and each of the fields
\* of a result is undefined on it
InheritedMember ==
    [price |-> Undefined, dividend |-> Undefined, actualDate |-> Undefined,
     change1d |-> Undefined, change7d |-> Undefined, change14d |-> Undefined,
     change30d |-> Undefined, error |-> Undefined]

\* closingPrices[code] on the object literal closingPrices: an own property,
\* else an inherited member, else undefined (Null here)
PriceDataOf(prices, code) ==
    IF code \in DOMAIN prices THEN Some(prices[code])
    ELSE IF code \in InheritedNames THEN Some(InheritedMember)
    ELSE Null

\* str.includes(ch)
Includes(str, ch) == \E k \in 1..Len(str) : str[k] = ch

\* val.replace(/"/g, '""')
RECURSIVE DoubleQuotes(_)
DoubleQuotes(str) ==
    IF str = <<>> THEN <<>>
    ELSE (IF Head(str) = "\"" THEN <<"\"", "\"">> ELSE <<Head(str)>>)
            \o DoubleQuotes(Tail(str))

\* the callback of row.slice(0, 9).map(...)
ExportCell(c) ==
    LET val == Trim(c)
    IN  IF Includes(val, ",") \/ Includes(val, "\"") \/ Includes(val, "\n")
        THEN <<"\"">> \o DoubleQuotes(val) \o <<"\"">>
        ELSE val

\* val.toFixed(2) or N/A for one of the change keys
ChangeText(priceData, key) ==
    IF priceData = Null THEN NAText
    ELSE IF priceData[1][key] = Null \/ priceData[1][key] = Undefined
    THEN NAText
    ELSE IF priceData[1][key] = NaN THEN <<"N", "a", "N">>
    ELSE ToFixed2(priceData[1][key][1])

\* the body of the loop over rows: the cells of the line of one row
ExportCells(row, prices) ==
    LET cells == [c \in 1..Min(9, Len(row)) |-> ExportCell(row[c])]
        codeCell == Cell(row, 4)
        code == IF codeCell = Null THEN <<>> ELSE Trim(codeCell[1])
        priceData == PriceDataOf(prices, code)
        has(key) == priceData # Null /\ priceData[1][key] # Null
        price == IF has("price") THEN StringOf(priceData[1].price, 10)
                 ELSE NAText
        dividend == IF has("dividend")
                    THEN StringOf(priceData[1].dividend, 100)
                    ELSE NAText
        yield == IF /\ has("price") /\ has("dividend")
                    /\ IsNumber(priceData[1].price)
                    /\ priceData[1].price[1] > 0
                 THEN IF IsNumber(priceData[1].dividend)
                      THEN YieldText(priceData[1].dividend[1],
                                     priceData[1].price[1])
                      ELSE <<"N", "a", "N">>
                 ELSE NAText
    IN  cells \o <<price, dividend, yield,
                   ChangeText(priceData, "change1d"),
                   ChangeText(priceData, "change7d"),
                   ChangeText(priceData, "change14d"),
                   ChangeText(priceData, "change30d")>>

\* headerLabels, each Japanese character written as one letter
headerLabels ==
    << <<"K", "J", "B">>,
       <<"(", "J", "S", "U", ")", "K", "J", "B">>,
       <<"R", "I", "O", "B", "(", "F", "T", "T", "H", ")">>,
       <<"R", "I", "O", "B", "(", "s", "n", "T", "n", "T", "H", ")">>,
       <<"M", "G", "k", "-", "d">>,
       <<"M", "G", "Y", "S">>,
       <<"S", "J">>,
       <<"B", "K">>,
       <<"K", "S", "f", "r", "g">>,
       <<"O", "N">>,
       <<"H", "T", "K">>,
       <<"H", "T", "R", "M", "r", "(", "%", ")">>,
       <<"Z", "B", "H", "(", "%", ")">>,
       <<"1", "S", "K", "Z", "H", "(", "%", ")">>,
       <<"2", "S", "K", "Z", "H", "(", "%", ")">>,
       <<"1", "k", "G", "Z", "H", "(", "%", ")">> >>

\* variant: a row whose identifier was exported before is left out
generateOutputCSVUniqueRows(data, prices) ==
    IF data = Null THEN <<>>
    ELSE
        LET rows == data[1].rows
            first(r) == \A q \in 1..(r - 1) :
                            Cell(rows[q], 4) = Null \/ Cell(rows[r], 4) = Null
                                \/ Trim(rows[q][5]) # Trim(rows[r][5])
            kept == SelectSeq([r \in 1..Len(rows) |-> r], first)
            lines == data[1].metadata
                        \o <<Join(headerLabels, <<",">>)>>
                        \o [n \in 1..Len(kept) |->
                                Join(ExportCells(rows[kept[n]], prices), <<",">>)]
        IN  Join(lines, <<"\r", "\n">>)

\* generateOutputCSV() on parsedData = data and closingPrices = prices
generateOutputCSV(data, prices) ==
    IF data = Null THEN <<>>
    ELSE
        LET rows == data[1].rows
            lines == data[1].metadata
                        \o <<Join(headerLabels, <<",">>)>>
                        \o [r \in 1..Len(rows) |->
                                Join(ExportCells(rows[r], prices), <<",">>)]
        IN  Join(lines, <<"\r", "\n">>)

-----------------------------------------------------------------------------
(* Calls of the selection and change-rate functions on their own: the      *)
(* arguments a lookup can pass them.  A series has up to MaxDays days     *)
(* (MaxCloses for the closes looked back over); the close of its k-th day  *)
(* is null or k * 10.00, so that a returned close tells the day it was     *)
(* taken from.                                                             *)

CallTicker == Some(<<"8", "2", "2", "7", ".", "T">>)
CallDate == DateCell(2024, 1, 10)

NoCall ==
    [fn |-> "none", timestamps |-> <<>>, closes |-> <<>>, targetTs |-> 0,
     baseIdx |-> 0, n |-> 0, currentPrice |-> Null, pastPrice |-> Null,
     rawCode |-> <<>>, rows |-> <<>>, dateColIdx |-> 0, dividends |-> Null,
     data |-> Null, results |-> <<>>, text |-> <<>>, ticker |-> Null,
     targetDateStr |-> <<>>]

\* days relative to the target: two on or before it, two after it
DayOffsets == {-2, 0, 1, 3}

\* the close arrays of a given length
ClosesOfLen(len) ==
    {[k \in 1..len |-> IF k \in nonNull THEN Some(k * 1000) ELSE Null] :
        nonNull \in SUBSET (1..len)}

\* the timestamp arrays of a given length, in any order and with repetitions
TimestampsOfLen(len) ==
    {[k \in 1..len |-> DayTs(o[k])] : o \in [1..len -> DayOffsets]}

Ascending(timestamps) ==
    \A k \in 1..(Len(timestamps) - 1) : timestamps[k] < timestamps[k + 1]

FindClosestCalls ==
    UNION {{[NoCall EXCEPT !.fn = "findClosestPriceWithIndex",
                           !.timestamps = ts, !.closes = cs,
                           !.targetTs = BaseTs] :
              ts \in TimestampsOfLen(len), cs \in ClosesOfLen(len)} :
           len \in 0..MaxDays}

\* a lookup whose response carries the series, as the upstream sends it
FetchCalls ==
    UNION {{[NoCall EXCEPT !.fn = "fetchClosingPrice",
                           !.timestamps = ts, !.closes = cs,
                           !.targetTs = BaseTs] :
              ts \in {t \in TimestampsOfLen(len) : Ascending(t)},
              cs \in ClosesOfLen(len)} :
           len \in 0..MaxDays}

\* Calls on a pair of arrays of which closes is the shorter one, as a
\* response can carry them (the two arrays are separate members of it)
ShortFindClosestCalls ==
    UNION {{[NoCall EXCEPT !.fn = "findClosestPriceWithIndex (short closes)",
                           !.timestamps = ts, !.closes = cs,
                           !.targetTs = BaseTs] :
              ts \in TimestampsOfLen(len),
              cs \in UNION {ClosesOfLen(m) : m \in 0..(len - 1)}} :
           len \in 1..MaxDays}

ShortFetchCalls ==
    UNION {{[NoCall EXCEPT !.fn = "fetchClosingPrice (short closes)",
                           !.timestamps = ts, !.closes = cs,
                           !.targetTs = BaseTs] :
              ts \in {t \in TimestampsOfLen(len) : Ascending(t)},
              cs \in UNION {ClosesOfLen(m) : m \in 0..(len - 1)}} :
           len \in 1..MaxDays}

\* Lookups whose response has dividend events: the events are on some of
\* the days of EventOffsets, in ascending order as Object.entries lists
\* them; the amount of an event tells its day and has 3 decimals.  The
\* series has one day with a close, or with a null close.
EventOffsets == {-3, -1, 1, 2}

EventOn(offset) == [ts |-> DayTs(offset), amount |-> (offset + 4) * 1000 + 5]

EventLists ==
    UNION {{evs \in [1..len -> {EventOn(o) : o \in EventOffsets}] :
                \A k \in 1..(len - 1) : evs[k].ts < evs[k + 1].ts} :
           len \in 0..MaxEvents}

DividendCalls ==
    {[NoCall EXCEPT !.fn = "fetchClosingPrice",
                    !.timestamps = <<DayTs(0)>>, !.closes = <<close>>,
                    !.targetTs = BaseTs, !.dividends = dividends] :
        close \in {Some(10000), Null},
        dividends \in {Null} \cup {Some(evs) : evs \in EventLists}}

NTradingDaysBackCalls ==
    UNION {{[NoCall EXCEPT !.fn = "findPriceNTradingDaysBack",
                           !.closes = cs, !.baseIdx = b, !.n = n] :
              cs \in ClosesOfLen(len), b \in 0..(len - 1),
              n \in 1..MaxCloses} :
           len \in 1..MaxCloses}

\* prices in hundredths
CallPrices ==
    {Null, Some(0), Some(1), Some(3), Some(10000), Some(11000), Some(12345)}

CalcChangeRateCalls ==
    {[NoCall EXCEPT !.fn = "calcChangeRate",
                    !.currentPrice = c, !.pastPrice = q] :
        c \in CallPrices, q \in CallPrices}

\* identifier cells: up to MaxIdLen characters of a digit, a letter, a
\* hyphen and a space, between margins of white space, and three cells of
\* other characters
IdChars == {"7", "a", "-", " "}
IdCores == UNION {[1..len -> IdChars] : len \in 0..MaxIdLen}
LeftMargins == {<<>>, <<" ">>}
RightMargins == {<<>>, <<"\t", " ">>}

IdCells ==
    {l \o c \o r : l \in LeftMargins, c \in IdCores, r \in RightMargins}
        \cup {<<"8", "2", "2", "7", "0", " ">>,
              <<"A", "b", "C", "9", "x", "y", "z">>,
              <<"1", "3", "0", "A", "\n">>}

ToTickerCalls ==
    {[NoCall EXCEPT !.fn = "toTicker", !.rawCode = c] : c \in IdCells}

\* rows for the resolver: an identifier that resolves, written in two ways
\* (one of them with either of two dates), one that is too short, one with
\* a hyphen and a blank one, and a row that ends before the identifier column
ResolverCodes ==
    {<<"8", "2", "2", "7", "0", " ">>, <<" ", "8", "2", "2", "7", "0">>,
     <<"A", "B", "1">>, <<"7", "2", "-", "3", "X">>, <<" ">>}

ResolverRows ==
    {Row(DateCell(2024, 1, 10), DateCell(2024, 3, 31), c) : c \in ResolverCodes}
        \cup {Row(DateCell(2024, 1, 9), DateCell(2024, 3, 31),
                  <<" ", "8", "2", "2", "7", "0">>),
              <<DateCell(2024, 1, 10), DateCell(2024, 3, 31)>>}

GetUniqueStocksCalls ==
    UNION {{[NoCall EXCEPT !.fn = "getUniqueStocks", !.rows = rows,
                           !.dateColIdx = c] :
              rows \in [1..len -> ResolverRows], c \in {0}} :
           len \in 0..MaxRows}

\* Data sets to export.  A row has the 9 columns of the input file; one row
\* has a tenth cell and one ends before the identifier column.
ExportCodes ==
    {<<"8", "2", "2", "7", "0", " ">>, <<" ">>,
     <<"c", "o", "n", "s", "t", "r", "u", "c", "t", "o", "r">>}

ExportRow(first, code) ==
    <<first, CallDate, CallDate, CallDate, code, <<"n", "m">>, <<"T">>, <<>>,
      <<"f">> >>

ExportRows ==
    {ExportRow(CallDate, code) : code \in ExportCodes}
        \cup {ExportRow(CallDate, <<" ", "8", "2", "2", "7", "0">>) \o << <<"x">> >>,
              <<CallDate, <<"y">> >>}

ExportMetadata == {<<>>, << <<"m", "e", "t", "a">>, <<>> >>}

\* replies whose results differ in the fields the export prints
ZeroPriceReply ==
    BodyReply(TRUE, <<DayTs(0)>>, <<Some(4)>>,
              Some(<< [ts |-> DayTs(0), amount |-> 1000] >>))

FractionReply ==
    BodyReply(TRUE, <<DayTs(-1), DayTs(0)>>, <<Some(12000), Some(12345)>>, Null)

ExportResults ==
    {fetchClosingPrice(CallTicker, CallDate, reply) :
        reply \in {HealthyReply, ZeroPriceReply, FractionReply, ShortCloseReply,
                   HttpReply(404)}}

\* the trimmed identifiers of a list of rows
CodesOfRows(rows) ==
    {Trim(rows[r][CodeColumn + 1]) :
        r \in {q \in 1..Len(rows) : Len(rows[q]) > CodeColumn}} \ {<<>>}

\* closingPrices in the course of a run over rows: results for some of the
\* identifiers, any of ExportResults for 82270 and a failure for the others
PricesOver(rows) ==
    UNION {{prices \in [keys -> ExportResults] :
                \A c \in keys :
                    c = <<"8", "2", "2", "7", "0">>
                        \/ prices[c] = WithError("HTTP 404")} :
           keys \in SUBSET CodesOfRows(rows)}

GenerateOutputCSVCalls ==
    UNION {{[NoCall EXCEPT !.fn = "generateOutputCSV",
                           !.data = Some([metadata |-> metadata,
                                          header |-> headerLabels,
                                          rows |-> rows]),
                           !.results = prices] :
                metadata \in ExportMetadata, prices \in PricesOver(rows)} :
           rows \in UNION {[1..len -> ExportRows] : len \in 1..MaxExportRows}}

\* Data sets to export and parse again: the first cell of the first row is
\* any text of up to MaxCellLen characters of CellChars, or one of two cells
\* with a carriage return inside
CellChars == {"a", ",", "\"", "\n", "\r", " "}

RoundTripCells ==
    UNION {[1..len -> CellChars] : len \in 0..MaxCellLen}
        \cup {<<"a", "\r", "a">>, <<"a", "\r", "\n", "a">>}

RoundTripMetadata ==
    {<<>>, << <<"m", ",", "\"">>, <<>>, <<" ", "a", "\r">> >>}

RoundTripData ==
    {[metadata |-> metadata, header |-> headerLabels,
      rows |-> << ExportRow(cell, <<"1", "3", "0", "A">>),
                  ExportRow(CallDate, <<"8", "2", "2", "7", "0", " ">>) >>] :
        metadata \in RoundTripMetadata, cell \in RoundTripCells}

\* texts parseCSV does not accept: no header line, no row after the header
BadTexts ==
    {<<>>,
     <<"m", "e", "t", "a", "\r", "\n", "1", ",", "2">>,
     HeaderMark \o <<",", "x", "\r", "\n", " ", ",", " ", "\r", "\n">>}

ParseCSVCalls ==
    {[NoCall EXCEPT !.fn = "parseCSV", !.data = Some(d),
                    !.text = generateOutputCSV(Some(d), <<>>)] :
        d \in RoundTripData}
    \cup {[NoCall EXCEPT !.fn = "parseCSV", !.text = t] : t \in BadTexts}

\* Lookups by ticker and target date: the dates are the epoch, the day the
\* window opens at the epoch, a leap day, the day of the other calls and two
\* texts that are no date; the ticker can be absent
RequestDates ==
    {DateCell(1970, 1, 1), DateCell(1970, 2, 15), DateCell(2024, 2, 29),
     CallDate, <<>>, <<"d", "a", "t", "e">>}

RequestCalls ==
    {[NoCall EXCEPT !.fn = "request", !.ticker = t, !.targetDateStr = d] :
        t \in {Null, CallTicker, Some(<<"A", "B", "1", "2", ".", "T">>)},
        d \in RequestDates}

Calls ==
    RequestCalls \cup ShortFindClosestCalls \cup ShortFetchCalls
        \cup FindClosestCalls \cup FetchCalls \cup NTradingDaysBackCalls
        \cup CalcChangeRateCalls \cup ToTickerCalls \cup DividendCalls
        \cup GetUniqueStocksCalls \cup GenerateOutputCSVCalls
        \cup ParseCSVCalls

-----------------------------------------------------------------------------
(* Batch Orchestrator: fetchAllPrices as a transformer of the run state    *)

\* the mutable state fetchAllPrices works on
RunState ==
    [closingPrices |-> closingPrices, errorMessages |-> errorMessages,
     isFetching |-> isFetching, fetchBtnDisabled |-> fetchBtnDisabled,
     downloadBtnDisabled |-> downloadBtnDisabled, stocks |-> stocks, i |-> i,
     completed |-> completed, pending |-> pending, pc |-> pc,
     progress |-> progress, issued |-> issued, batches |-> batches,
     delays |-> delays, summary |-> summary, emitted |-> emitted,
     replies |-> replies, runs |-> runs]

Install(r) ==
    /\ closingPrices' = r.closingPrices
    /\ errorMessages' = r.errorMessages
    /\ isFetching' = r.isFetching
    /\ fetchBtnDisabled' = r.fetchBtnDisabled
    /\ downloadBtnDisabled' = r.downloadBtnDisabled
    /\ stocks' = r.stocks
    /\ i' = r.i
    /\ completed' = r.completed
    /\ pending' = r.pending
    /\ pc' = r.pc
    /\ progress' = r.progress
    /\ issued' = r.issued
    /\ batches' = r.batches
    /\ delays' = r.delays
    /\ summary' = r.summary
    /\ emitted' = r.emitted
    /\ replies' = r.replies
    /\ runs' = r.runs

\* variant: the record of a failed lookup is put at the head of the list
RecordResultAtHead(r, k, result) ==
    LET stock == r.stocks[k]
    IN  [r EXCEPT
            !.closingPrices = (stock.rawCode :> result) @@ r.closingPrices,
            !.errorMessages =
                IF Truthy(result.error)
                THEN <<[code |-> stock.rawCode,
                        ticker |-> IF stock.ticker = Null THEN NAText
                                   ELSE stock.ticker[1],
                        error |-> result.error[1]]>> \o r.errorMessages
                ELSE r.errorMessages,
            !.completed = r.completed + 1,
            !.progress = <<r.completed + 1, Len(r.stocks)>>,
            !.emitted = Append(r.emitted, <<r.completed + 1, Len(r.stocks)>>)]

\* variant: a failed lookup throws, so its callback records nothing
RecordResultUnlessFailed(r, k, result) ==
    IF result.error # Null THEN r
    ELSE [r EXCEPT
            !.closingPrices = (r.stocks[k].rawCode :> result) @@ r.closingPrices,
            !.completed = r.completed + 1,
            !.progress = <<r.completed + 1, Len(r.stocks)>>,
            !.emitted = Append(r.emitted, <<r.completed + 1, Len(r.stocks)>>)]

\* variant: the progress notification carries the position of the stock in
\* the list instead of the completion counter
RecordResultEmitsIndex(r, k, result) ==
    LET stock == r.stocks[k]
    IN  [r EXCEPT
            !.closingPrices = (stock.rawCode :> result) @@ r.closingPrices,
            !.errorMessages =
                IF Truthy(result.error)
                THEN Append(r.errorMessages,
                            [code |-> stock.rawCode,
                             ticker |-> IF stock.ticker = Null THEN NAText
                                        ELSE stock.ticker[1],
                             error |-> result.error[1]])
                ELSE r.errorMessages,
            !.completed = r.completed + 1,
            !.progress = <<k, Len(r.stocks)>>,
            !.emitted = Append(r.emitted, <<k, Len(r.stocks)>>)]

\* the body of the per-stock callback after `await fetchClosingPrice(...)`
RecordResult(r, k, result) ==
    LET stock == r.stocks[k]
    IN  [r EXCEPT
            !.closingPrices = (stock.rawCode :> result) @@ r.closingPrices,
            !.errorMessages =
                IF Truthy(result.error)
                THEN Append(r.errorMessages,
                            [code |-> stock.rawCode,
                             ticker |-> IF stock.ticker = Null THEN NAText
                                        ELSE stock.ticker[1],
                             error |-> result.error[1]])
                ELSE r.errorMessages,
            !.completed = r.completed + 1,
            !.progress = <<r.completed + 1, Len(r.stocks)>>,
            !.emitted = Append(r.emitted, <<r.completed + 1, Len(r.stocks)>>)]

\* variant: the slice is one element too long
BatchIndicesWide(offset, total) ==
    (offset + 1)..Min(offset + BATCH_SIZE + 1, total)

\* stocks.slice(i, i + BATCH_SIZE), as the 1-based indices it holds
BatchIndices(offset, total) == (offset + 1)..Min(offset + BATCH_SIZE, total)

\* variant: the delay test uses <= instead of <
MoreBatchesInclusive(offset, total) == offset + BATCH_SIZE <= total

\* `if (i + BATCH_SIZE < total)`
MoreBatches(offset, total) == offset + BATCH_SIZE < total

\* variant: the loop goes on without waiting for the batch
BatchJoinedAtOnce(pendingSet) == TRUE

\* Promise.all(promises) is fulfilled once no lookup of the batch is pending
BatchJoined(pendingSet) == pendingSet = {}

\* The results map is an object literal.  `closingPrices[key] = result`
\* with the key __proto__ runs the accessor of Object.prototype: result
\* becomes the prototype of the map, closingPrices['__proto__'] reads it
\* back, and the map gets no property of its own.  The function that models
\* the map holds the prototype under that key; Object.keys, Object.values
\* and Object.entries list the own properties only.
OwnKeys(results) == DOMAIN results \ {ProtoName}

\* showResults(): the counts written to successCount, naCount, errorCount
showResults(results, errors) ==
    [success |-> Cardinality({c \in OwnKeys(results) : results[c].price # Null}),
     na |-> Cardinality({c \in OwnKeys(results) : results[c].price = Null}),
     errors |-> Len(errors)]

\* variant: the running flag is not cleared
FinishRunKeepsFlag(r) ==
    [r EXCEPT !.fetchBtnDisabled = FALSE,
              !.progress = <<Len(r.stocks), Len(r.stocks)>>,
              !.emitted = Append(r.emitted, <<Len(r.stocks), Len(r.stocks)>>),
              !.summary = Some(showResults(r.closingPrices, r.errorMessages)),
              !.downloadBtnDisabled = FALSE,
              !.pc = "idle"]

\* the statements after the loop
FinishRun(r) ==
    [r EXCEPT !.isFetching = FALSE,
              !.fetchBtnDisabled = FALSE,
              !.progress = <<Len(r.stocks), Len(r.stocks)>>,
              !.emitted = Append(r.emitted, <<Len(r.stocks), Len(r.stocks)>>),
              !.summary = Some(showResults(r.closingPrices, r.errorMessages)),
              !.downloadBtnDisabled = FALSE,
              !.pc = "idle"]

\* what follows `await Promise.all(promises)`: the pacing delay, or the loop
\* exit (i + BATCH_SIZE >= total ends the for loop)
AfterBatch(r) ==
    IF MoreBatches(r.i, Len(r.stocks))
    THEN [r EXCEPT !.pc = "pacing", !.delays = r.delays + 1]
    ELSE FinishRun(r)

\* lookups with a null ticker return without a network call; their callbacks
\* run as microtasks, in batch order, before any other task
RECURSIVE SettleNullTickers(_, _, _)
SettleNullTickers(r, k, last) ==
    IF k > last THEN r
    ELSE IF r.stocks[k].ticker = Null
         THEN SettleNullTickers(
                  RecordResult(r, k, fetchClosingPrice(Null, r.stocks[k].date,
                                                       HealthyReply)),
                  k + 1, last)
    ELSE SettleNullTickers(r, k + 1, last)

\* one iteration of the for loop up to `await Promise.all(promises)`
DispatchBatch(r) ==
    LET total == Len(r.stocks)
        idx == BatchIndices(r.i, total)
        last == Min(r.i + BATCH_SIZE, total)
        started == [r EXCEPT
            !.issued = [k \in 1..total |->
                           IF k \in idx THEN r.issued[k] + 1 ELSE r.issued[k]],
            !.pending = r.pending \cup {k \in idx : r.stocks[k].ticker # Null},
            !.batches = r.batches + 1,
            !.pc = "awaiting"]
        settled == SettleNullTickers(started, r.i + 1, last)
    IN  IF BatchJoined(settled.pending) THEN AfterBatch(settled) ELSE settled

\* variant: a new run keeps the results and errors of the run before it
StartRunMerging(r, newStocks) ==
    DispatchBatch([r EXCEPT
        !.isFetching = TRUE,
        !.stocks = newStocks,
        !.completed = 0,
        !.progress = <<0, Len(newStocks)>>,
        !.emitted = << <<0, Len(newStocks)>> >>,
        !.fetchBtnDisabled = TRUE,
        !.i = 0,
        !.pending = {},
        !.issued = [k \in 1..Len(newStocks) |-> 0],
        !.replies = [k \in 1..Len(newStocks) |-> Null],
        !.runs = Min(r.runs + 1, MaxRuns),
        !.summary = Null,
        !.batches = 0,
        !.delays = 0])

\* fetchAllPrices(stocks) up to its first suspension
StartRun(r, newStocks) ==
    DispatchBatch([r EXCEPT
        !.isFetching = TRUE,
        !.closingPrices = <<>>,
        !.errorMessages = <<>>,
        !.stocks = newStocks,
        !.completed = 0,
        !.progress = <<0, Len(newStocks)>>,
        !.emitted = << <<0, Len(newStocks)>> >>,
        !.fetchBtnDisabled = TRUE,
        !.i = 0,
        !.pending = {},
        !.issued = [k \in 1..Len(newStocks) |-> 0],
        !.replies = [k \in 1..Len(newStocks) |-> Null],
        !.runs = Min(r.runs + 1, MaxRuns),
        !.summary = Null,
        !.batches = 0,
        !.delays = 0])

-----------------------------------------------------------------------------
(* Handlers *)

\* variant: the handler does not test the running flag
ClickAcceptedWhileFetching == parsedData # Null

\* the guard of the fetch button's click handler
ClickAccepted == parsedData # Null /\ ~isFetching

\* fetchBtn click handler
ClickFetch ==
    /\ lastEvent' = "fetchClick"
    /\ parsedData' = parsedData
    /\ UNCHANGED callVars
    /\ \E dateColIdx \in DateColumns :
        IF ~ClickAccepted THEN Install(RunState)
        ELSE LET found == getUniqueStocks(parsedData[1].rows, CodeColumn,
                                              dateColIdx)
             IN  IF Len(found) = 0 THEN Install(RunState)
                 ELSE Install(StartRun(RunState, found))

\* fetchClosingPrice over every lookup a run of the model can issue,
\* tabulated so that each (ticker, date, reply) is evaluated once
StockRefs ==
    UNION {{getUniqueStocks(f.rows, CodeColumn, c)[n] :
               n \in 1..Len(getUniqueStocks(f.rows, CodeColumn, c))} :
           f \in Files, c \in DateColumns}

LookupTable ==
    [q \in {<<st.ticker, st.date, r>> : st \in StockRefs, r \in AllReplies} |->
        fetchClosingPrice(q[1], q[2], q[3])]

\* the network answers the lookup of stocks[k]: the rest of fetchClosingPrice,
\* the per-stock callback and, when the batch is joined, the continuation of
\* fetchAllPrices
LookupCompletes ==
    /\ \E k \in pending : \E reply \in RepliesFor(stocks[k].ticker) :
       \E result \in {LookupTable[<<stocks[k].ticker, stocks[k].date, reply>>]} :
       \E recorded \in {RecordResult([RunState EXCEPT
                                         !.pending = pending \ {k},
                                         !.replies[k] = Some(reply)],
                                     k, result)} :
       \E next \in {IF BatchJoined(recorded.pending) /\ recorded.pc = "awaiting"
                    THEN AfterBatch(recorded)
                    ELSE recorded} :
          Install(next)
    /\ lastEvent' = "lookup"
    /\ parsedData' = parsedData
    /\ UNCHANGED callVars

\* the timer of sleep(BATCH_DELAY_MS) fires: i += BATCH_SIZE and the next
\* iteration
SleepElapses ==
    /\ pc = "pacing"
    /\ Install(DispatchBatch([RunState EXCEPT !.i = i + BATCH_SIZE]))
    /\ lastEvent' = "timer"
    /\ parsedData' = parsedData
    /\ UNCHANGED callVars

\* the text of an input file with the lines and cells of f
FileText(f) ==
    Join(f.metadata \o <<Join(f.header, <<",">>)>>
            \o [r \in 1..Len(f.rows) |-> Join(f.rows[r], <<",">>)],
         <<"\r", "\n">>)

\* the texts a user can hand in, and parseCSV tabulated over them
InputTexts == {FileText(f) : f \in Files} \cup BadTexts
IngestTable == [text \in InputTexts |-> parseCSV(text)]

\* variant: the results and the error list are cleared before the text is
\* parsed
processCSVTextClearingFirst(data, r, parsed) ==
    IF parsed.threw # Null
    THEN <<data, [r EXCEPT !.closingPrices = <<>>, !.errorMessages = <<>>]>>
    ELSE <<Some([metadata |-> parsed.metadata, header |-> parsed.header,
                 rows |-> parsed.rows]),
           [r EXCEPT !.closingPrices = <<>>,
                     !.errorMessages = <<>>,
                     !.downloadBtnDisabled = TRUE]>>

\* processCSVText(text, file) on parsedData = data and the run state r, where
\* parsed is what parseCSV(text) hands back: parsedData and the run state
\* afterwards (the catch block only shows an alert)
processCSVText(data, r, parsed) ==
    IF parsed.threw # Null THEN <<data, r>>
    ELSE <<Some([metadata |-> parsed.metadata, header |-> parsed.header,
                 rows |-> parsed.rows]),
           [r EXCEPT !.closingPrices = <<>>,
                     !.errorMessages = <<>>,
                     !.downloadBtnDisabled = TRUE]>>

\* a file is chosen or dropped and read: processCSVText (the drop zone is
\* shown only while no file is loaded)
LoadFile ==
    /\ parsedData = Null
    /\ \E text \in InputTexts :
        \E after \in {processCSVText(parsedData, RunState, IngestTable[text])} :
            /\ parsedData' = after[1]
            /\ Install(after[2])
            /\ lastEvent' = IF IngestTable[text].threw # Null
                            THEN "loadFailed" ELSE "load"
    /\ UNCHANGED callVars

\* fileRemove click handler: resetFile()
ResetFile ==
    /\ parsedData # Null
    /\ parsedData' = Null
    /\ Install([RunState EXCEPT !.closingPrices = <<>>,
                                !.errorMessages = <<>>])
    /\ lastEvent' = "remove"
    /\ UNCHANGED callVars

AppInit ==
    /\ parsedData = Null
    /\ closingPrices = <<>>
    /\ errorMessages = <<>>
    /\ isFetching = FALSE
    /\ fetchBtnDisabled = FALSE
    /\ downloadBtnDisabled = TRUE
    /\ stocks = <<>>
    /\ i = 0
    /\ completed = 0
    /\ pending = {}
    /\ pc = "idle"
    /\ progress = <<0, 0>>
    /\ issued = <<>>
    /\ batches = 0
    /\ delays = 0
    /\ lastEvent = "init"
    /\ summary = Null
    /\ emitted = <<>>
    /\ replies = <<>>
    /\ runs = 0

Init ==
    /\ AppInit
    /\ call = NoCall
    /\ returned = Null

Next ==
    \/ ClickFetch
    \/ LookupCompletes
    \/ SleepElapses
    \/ LoadFile
    \/ ResetFile

Spec == Init /\ [][Next]_vars

\* the scheduler runs every ready callback: a pending lookup is eventually
\* answered (the transport's own timeout) and every timer eventually fires
FairSpec == Spec /\ WF_vars(LookupCompletes) /\ WF_vars(SleepElapses)

\* a function under test is called with the arguments of `call`
ApplyFindClosest ==
    /\ call.fn \in {"findClosestPriceWithIndex",
                   "findClosestPriceWithIndex (short closes)"}
    /\ returned = Null
    /\ returned' = Some(findClosestPriceWithIndex(call.timestamps, call.closes,
                                                  Some(call.targetTs)))
    /\ UNCHANGED <<call, appVars>>

ApplyFetch ==
    /\ call.fn \in {"fetchClosingPrice", "fetchClosingPrice (short closes)"}
    /\ returned = Null
    /\ returned' = Some(fetchClosingPrice(CallTicker, CallDate,
                            BodyReply(TRUE, call.timestamps, call.closes,
                                      call.dividends)))
    /\ UNCHANGED <<call, appVars>>

ApplyNTradingDaysBack ==
    /\ call.fn = "findPriceNTradingDaysBack" /\ returned = Null
    /\ returned' = Some(findPriceNTradingDaysBack(call.closes, call.baseIdx,
                                                  call.n))
    /\ UNCHANGED <<call, appVars>>

ApplyCalcChangeRate ==
    /\ call.fn = "calcChangeRate" /\ returned = Null
    /\ returned' = Some(calcChangeRate(call.currentPrice, call.pastPrice))
    /\ UNCHANGED <<call, appVars>>

ApplyToTicker ==
    /\ call.fn = "toTicker" /\ returned = Null
    /\ returned' = Some(toTicker(call.rawCode))
    /\ UNCHANGED <<call, appVars>>

ApplyGetUniqueStocks ==
    /\ call.fn = "getUniqueStocks" /\ returned = Null
    /\ returned' = Some(getUniqueStocks(call.rows, CodeColumn,
                                        call.dateColIdx))
    /\ UNCHANGED <<call, appVars>>

ApplyGenerateOutputCSV ==
    /\ call.fn = "generateOutputCSV" /\ returned = Null
    /\ returned' = Some(generateOutputCSV(call.data, call.results))
    /\ UNCHANGED <<call, appVars>>

ApplyParseCSV ==
    /\ call.fn = "parseCSV" /\ returned = Null
    /\ returned' = Some(parseCSV(call.text))
    /\ UNCHANGED <<call, appVars>>

\* fetchClosingPrice up to its fetch
ApplyRequest ==
    /\ call.fn = "request" /\ returned = Null
    /\ returned' = Some(requestOf(call.ticker, call.targetDateStr))
    /\ UNCHANGED <<call, appVars>>

CallInit ==
    /\ AppInit
    /\ call \in Calls
    /\ returned = Null

CallNext ==
    \/ ApplyFindClosest
    \/ ApplyFetch
    \/ ApplyNTradingDaysBack
    \/ ApplyCalcChangeRate
    \/ ApplyToTicker
    \/ ApplyGetUniqueStocks
    \/ ApplyGenerateOutputCSV
    \/ ApplyParseCSV
    \/ ApplyRequest

\* the functions of the lookup applied to every argument list of Calls
CallSpec == CallInit /\ [][CallNext]_vars

-----------------------------------------------------------------------------
(* Properties *)

Total == Len(stocks)
CeilDiv(n, d) == (n + d - 1) \div d
RawCodes == {stocks[k].rawCode : k \in 1..Total}
IssuedSet == {k \in 1..Total : issued[k] > 0}

\* a run has been started and has reached the end of fetchAllPrices
RunOver == stocks # <<>> /\ ~isFetching /\ pc = "idle"

\* the state right after the step that ended a run
RunJustEnded == RunOver /\ lastEvent \in {"lookup", "timer"}

\* a lookup of the current run has been answered by the network
SomeAnswered ==
    \E k \in IssuedSet : stocks[k].ticker # Null /\ k \notin pending

\* C1: a click on the fetch button that arrives while isFetching is true
\* starts no lookup and changes none of closingPrices, errorMessages and
\* isFetching (nor the run's StockRef list), so no second run overlaps.
C1_ClickWhileFetchingIgnored ==
    [][(isFetching /\ lastEvent' = "fetchClick") =>
          /\ closingPrices' = closingPrices
          /\ errorMessages' = errorMessages
          /\ isFetching' = isFetching
          /\ stocks' = stocks
          /\ issued' = issued
          /\ pending' = pending
          /\ batches' = batches]_vars

C1_Witness == isFetching /\ lastEvent = "fetchClick" /\ SomeAnswered

\* C2: the lookups issued so far are those of the consecutive size-5 slices
\* up to the current one, in input order, and only lookups of the current
\* slice are pending: every lookup of an earlier batch has completed before
\* any lookup of the next batch is issued.
C2_BatchBarrier ==
    /\ i % BATCH_SIZE = 0
    /\ IssuedSet = 1..Min(i + BATCH_SIZE, Total)
    /\ pending \subseteq BatchIndices(i, Total)
    /\ \A k \in 1..Total : issued[k] <= 1

C2_Witness ==
    /\ batches = 2
    /\ pending # {}
    /\ Len(errorMessages) > 0
    /\ \A k \in 1..BATCH_SIZE : issued[k] = 1 /\ k \notin pending

\* C3: at most BATCH_SIZE lookups are issued and not yet completed.
C3_BoundedInFlight == Cardinality(pending) <= BATCH_SIZE

C3_Witness == Cardinality(pending) = BATCH_SIZE /\ batches = 2

\* C4: a run over n StockRefs dispatches ceil(n/5) batches and sleeps
\* ceil(n/5) - 1 times; a delay starts only when the batch before it is
\* complete and a further batch remains, and none follows the last batch.
C4_BatchesAndDelays ==
    stocks # <<>> =>
        /\ batches = (i \div BATCH_SIZE) + 1
        /\ batches <= CeilDiv(Total, BATCH_SIZE)
        /\ pc = "pacing" =>
              pending = {} /\ delays = batches
                 /\ batches < CeilDiv(Total, BATCH_SIZE)
        /\ pc # "pacing" => delays = batches - 1
        /\ RunOver => batches = CeilDiv(Total, BATCH_SIZE)

C4_Witness == RunJustEnded /\ batches >= 3 /\ delays = batches - 1

\* C5: a failed lookup yields a result whose error is set (it does not
\* throw), and failures stop nothing: every lookup that was issued and is no
\* longer pending has been recorded, and when the run is over every StockRef
\* has been looked up and recorded.
C5_FailureContained ==
    /\ \A c \in DOMAIN closingPrices :
          closingPrices[c].price = Null => closingPrices[c].error # Null
    /\ stocks # <<>> => completed = Cardinality(IssuedSet) - Cardinality(pending)
    /\ RunOver => completed = Total /\ IssuedSet = 1..Total
    /\ lastEvent = "lookup" => DOMAIN closingPrices # {}

C5_Witness ==
    /\ RunJustEnded
    /\ batches >= 3
    /\ \E n \in 1..Len(errorMessages) :
          errorMessages[n].code = stocks[2].rawCode
    /\ stocks[Total].rawCode \in DOMAIN closingPrices

\* C6: under fair scheduling every started run ends with isFetching false and
\* the fetch button enabled, whatever the lookups returned.
C6_RunTerminates == isFetching ~> (~isFetching /\ ~fetchBtnDisabled)

C6_Witness ==
    /\ RunJustEnded
    /\ DOMAIN closingPrices = RawCodes
    /\ \A c \in DOMAIN closingPrices : closingPrices[c].price = Null

\* C7 (as claimed): each lookup of a run is issued once, an entry of the
\* results map is never removed or changed while the run goes on, and when
\* the run ends the keys of the results map are the rawCodes of the run.
C7_WrittenOnceAndComplete ==
    /\ [](\A k \in 1..Total : issued[k] <= 1)
    /\ [](RunJustEnded => DOMAIN closingPrices = RawCodes)
    /\ [][isFetching =>
            \A c \in DOMAIN closingPrices :
                c \in DOMAIN closingPrices'
                    /\ closingPrices'[c] = closingPrices[c]]_vars

\* C8 (as claimed): when a run ends the error list holds one record for each
\* StockRef whose result has a non-null error, and no other record.
C8_ErrorListMatchesFailures ==
    RunJustEnded =>
        LET failed == {c \in DOMAIN closingPrices :
                          closingPrices[c].error # Null}
        IN  /\ {errorMessages[n].code : n \in 1..Len(errorMessages)} = failed
            /\ Len(errorMessages) = Cardinality(failed)

\* C9: a stored result with a non-null error has price, dividend,
\* actualDate and the four change rates all null.
C9_ErrorImpliesAllNull ==
    \A c \in DOMAIN closingPrices :
        closingPrices[c].error # Null =>
            /\ closingPrices[c].price = Null
            /\ closingPrices[c].dividend = Null
            /\ closingPrices[c].actualDate = Null
            /\ closingPrices[c].change1d = Null
            /\ closingPrices[c].change7d = Null
            /\ closingPrices[c].change14d = Null
            /\ closingPrices[c].change30d = Null

C9_Witness ==
    /\ \E c \in DOMAIN closingPrices :
          closingPrices[c].error = Some("no valid close")
    /\ \E c \in DOMAIN closingPrices : closingPrices[c].error = Some("HTTP 500")
    /\ \E c \in DOMAIN closingPrices :
          closingPrices[c].error = Some("invalid ticker")

\* C10 (as claimed): when a run ends the number of results with a null
\* price equals the length of the error list.
C10_NotAvailableEqualsErrors ==
    RunJustEnded =>
        Cardinality({c \in DOMAIN closingPrices : closingPrices[c].price = Null})
            = Len(errorMessages)

\* the step is a click on the fetch button that starts a run
RunStarts ==
    /\ ClickAccepted
    /\ lastEvent' = "fetchClick"
    /\ getUniqueStocks(parsedData[1].rows, CodeColumn, 0) # <<>>

\* the StockRef of the current run that carries rawCode c
StockOf(c) == stocks[CHOOSE k \in 1..Total : stocks[k].rawCode = c]

\* what the lookup of a StockRef can return
PossibleResults(stock) ==
    {LookupTable[<<stock.ticker, stock.date, r>>] : r \in AllReplies}

ErrorCodes == {errorMessages[n].code : n \in 1..Len(errorMessages)}

\* C11: the step that starts a run leaves in the results map and the error
\* list only what the lookups of the new run's first batch that need no
\* network have written, and when a run ends every key, every result and
\* every error record belongs to a StockRef of that run: nothing of an
\* earlier run is merged in.
C11_RestartResets ==
    /\ [][RunStarts =>
            LET first == {k \in BatchIndices(0, Len(stocks')) :
                             stocks'[k].ticker = Null}
                codes == {stocks'[k].rawCode : k \in first}
            IN  /\ DOMAIN closingPrices' = codes
                /\ {errorMessages'[n].code : n \in 1..Len(errorMessages')}
                      = codes
                /\ Len(errorMessages') = Cardinality(first)]_vars
    /\ [](RunJustEnded =>
            /\ DOMAIN closingPrices \subseteq RawCodes
            /\ \A c \in DOMAIN closingPrices :
                  closingPrices[c] \in PossibleResults(StockOf(c))
            /\ ErrorCodes \subseteq DOMAIN closingPrices
            /\ Len(errorMessages) = Cardinality(ErrorCodes)
            /\ \A n \in 1..Len(errorMessages) :
                  closingPrices[errorMessages[n].code].error
                      = Some(errorMessages[n].error))

\* a second run has ended with no failure but the one of the identifier
\* that is too short
C11_Witness ==
    /\ runs >= 2
    /\ RunJustEnded
    /\ Total = MaxStocks
    /\ Len(errorMessages) = 1

\* what the lookup of stocks[k] returns in the current run, given the reply
\* the upstream gave it (a StockRef without ticker needs none)
ResultOf(k) ==
    IF stocks[k].ticker = Null
    THEN LookupTable[<<Null, stocks[k].date, HealthyReply>>]
    ELSE LookupTable[<<stocks[k].ticker, stocks[k].date, replies[k][1]>>]

\* C12 (as claimed): when a run ends the results map is the one fixed by the
\* StockRef list and by the reply the upstream gave each lookup: it holds
\* under each rawCode of the list the result of that StockRef's lookup,
\* whatever the order in which the lookups completed and also for a run
\* that follows another one.
C12_FinalMapDetermined ==
    RunJustEnded =>
        /\ DOMAIN closingPrices = RawCodes
        /\ \A k \in 1..Total :
              stocks[k].rawCode \in DOMAIN closingPrices
                  => closingPrices[stocks[k].rawCode] = ResultOf(k)

\* C13: the progress notifications of a run are (0, total) at its start,
\* then (1, total), (2, total), ... one for each completed lookup in the
\* order of completion, and after the last batch one more with
\* (total, total); a lookup completion raises the counter by exactly one.
C13_ProgressCountsUp ==
    /\ [](runs > 0 =>
            /\ Len(emitted) = completed + 1 + (IF RunOver THEN 1 ELSE 0)
            /\ \A n \in 1..(completed + 1) : emitted[n] = <<n - 1, Total>>
            /\ RunOver =>
                  completed = Total /\ emitted[Len(emitted)] = <<Total, Total>>
            /\ progress = emitted[Len(emitted)])
    /\ [][lastEvent' = "lookup" => completed' = completed + 1]_vars

\* a run has ended in which the third lookup failed before the first one did
C13_Witness ==
    /\ RunJustEnded
    /\ Len(emitted) = Total + 2
    /\ Len(errorMessages) = 3
    /\ errorMessages[2].code = stocks[3].rawCode
    /\ errorMessages[3].code = stocks[1].rawCode

\* C14 (as claimed): when a run over n StockRefs ends, showResults has
\* reported as success count the number of results with a non-null price, as
\* not-available count the number of results with a null price and as error
\* count the length of the error list, and the first two add up to n.
C14_CompleteSummary ==
    RunJustEnded =>
        /\ summary # Null
        /\ summary[1].success =
              Cardinality({c \in DOMAIN closingPrices :
                              closingPrices[c].price # Null})
        /\ summary[1].na =
              Cardinality({c \in DOMAIN closingPrices :
                              closingPrices[c].price = Null})
        /\ summary[1].errors = Len(errorMessages)
        /\ summary[1].success + summary[1].na = Total

\* the value fields of a result are all null
AllValuesNull(result) ==
    /\ result.price = Null
    /\ result.dividend = Null
    /\ result.actualDate = Null
    /\ result.change1d = Null
    /\ result.change7d = Null
    /\ result.change14d = Null
    /\ result.change30d = Null

\* C15: a lookup whose StockRef has no ticker never goes to the network and
\* whatever the upstream would answer returns all value fields null with a
\* non-null error; in the very step that dispatches its batch the
\* orchestrator stores that result under the rawCode and appends one
\* ErrorRecord for it.
C15_NullTickerFailsLocally ==
    /\ [](/\ \A k \in pending : stocks[k].ticker # Null
          /\ \A k \in 1..Len(replies) :
                stocks[k].ticker = Null => replies[k] = Null
          /\ \A reply \in AllReplies :
                LET result == fetchClosingPrice(Null, CallDate, reply)
                IN  AllValuesNull(result) /\ result.error # Null)
    /\ [][(RunStarts \/ lastEvent' = "timer") =>
            \A k \in BatchIndices(i', Len(stocks')) :
                stocks'[k].ticker = Null =>
                    LET code == stocks'[k].rawCode
                    IN  /\ k \notin pending'
                        /\ code \in DOMAIN closingPrices'
                        /\ AllValuesNull(closingPrices'[code])
                        /\ closingPrices'[code].error # Null
                        /\ Cardinality({n \in 1..Len(errorMessages') :
                                errorMessages'[n].code = code}) = 1]_vars

\* a batch has just been dispatched: the identifier that is too short has
\* its failed result and its ErrorRecord while the other lookups are pending
C15_Witness ==
    /\ lastEvent = "fetchClick"
    /\ isFetching
    /\ pending # {}
    /\ stocks[2].ticker = Null
    /\ 2 \notin pending
    /\ closingPrices[stocks[2].rawCode].error # Null
    /\ Len(errorMessages) = 1
    /\ errorMessages[1].code = stocks[2].rawCode

-----------------------------------------------------------------------------
(* Properties of the selection and change-rate functions, under CallSpec   *)

\* the function fn has been called and has returned
Returned(fn) == call.fn = fn /\ returned # Null

\* the days (0-based indices) of the series of `call` that have a close
NonNullDays ==
    {k \in 0..(Len(call.timestamps) - 1) : call.closes[k + 1] # Null}

\* those of them that are on or before the target
OnOrBeforeDays ==
    {k \in NonNullDays : call.timestamps[k + 1] <= call.targetTs}

\* C16: when some day with a non-null close is on or before the target,
\* findClosestPriceWithIndex returns a day with a non-null close on or before
\* the target such that no other such day has a greater timestamp, together
\* with its close, however close to the target a later day is.
C16_OnOrBeforePreferred ==
    (Returned("findClosestPriceWithIndex") /\ OnOrBeforeDays # {}) =>
        LET idx == returned[1].index
        IN  /\ idx \in OnOrBeforeDays
            /\ \A j \in OnOrBeforeDays :
                  call.timestamps[j + 1] <= call.timestamps[idx + 1]
            /\ returned[1].price = call.closes[idx + 1]

\* days t-2d and t+1d, both with a close: t-2d is selected
C16_Witness ==
    /\ Returned("findClosestPriceWithIndex")
    /\ call.timestamps = <<DayTs(-2), DayTs(1)>>
    /\ call.closes = <<Some(1000), Some(2000)>>
    /\ returned = Some([price |-> Some(1000), index |-> 0])

\* C17: when no day with a non-null close is on or before the target but
\* some day has a non-null close, findClosestPriceWithIndex returns a day
\* with a non-null close whose absolute distance to the target is the
\* smallest, together with its close.
C17_FallbackNearest ==
    (Returned("findClosestPriceWithIndex")
        /\ OnOrBeforeDays = {} /\ NonNullDays # {}) =>
        LET idx == returned[1].index
        IN  /\ idx \in NonNullDays
            /\ \A j \in NonNullDays :
                  Abs(call.targetTs - call.timestamps[idx + 1])
                      <= Abs(call.targetTs - call.timestamps[j + 1])
            /\ returned[1].price = call.closes[idx + 1]

\* days t+3d and t+1d in this order and a day t-2d without close: t+1d is
\* selected
C17_Witness ==
    /\ Returned("findClosestPriceWithIndex")
    /\ call.timestamps = <<DayTs(3), DayTs(-2), DayTs(1)>>
    /\ call.closes = <<Some(1000), Null, Some(3000)>>
    /\ returned = Some([price |-> Some(3000), index |-> 2])

\* C18: findClosestPriceWithIndex returns index -1 exactly when it returns a
\* null price and exactly when no day of the series has a non-null close;
\* and a lookup whose response carries a non-empty series fails with the
\* no-valid-close error and all value fields null in exactly that case, and
\* otherwise succeeds with a price.
C18_NoCloseNoSelection ==
    /\ Returned("findClosestPriceWithIndex") =>
          /\ returned[1].index = -1 <=> NonNullDays = {}
          /\ returned[1].price = Null <=> NonNullDays = {}
          /\ returned[1].index \in -1..(Len(call.timestamps) - 1)
    /\ (Returned("fetchClosingPrice") /\ Len(call.timestamps) > 0) =>
          /\ NonNullDays = {} =>
                /\ returned[1].error = Some("no valid close")
                /\ AllValuesNull(returned[1])
          /\ NonNullDays # {} =>
                /\ returned[1].error = Null
                /\ returned[1].price # Null

\* a lookup whose series has three days, none of them with a close
C18_Witness ==
    /\ Returned("fetchClosingPrice")
    /\ Len(call.timestamps) = 3
    /\ NonNullDays = {}
    /\ returned[1].error = Some("no valid close")
    /\ returned[1].price = Null

\* the days before the base index of `call` that have a close
DaysBefore == {k \in 0..(call.baseIdx - 1) : call.closes[k + 1] # Null}

\* C19: findPriceNTradingDaysBack(closes, b, N) returns null exactly when
\* fewer than N days before index b have a non-null close, and otherwise
\* the close of the day j < b with a non-null close such that exactly N days
\* with a non-null close lie in j..b-1 (days without close are skipped and
\* not counted).
C19_NthCloseBack ==
    Returned("findPriceNTradingDaysBack") =>
        /\ returned[1] = Null <=> Cardinality(DaysBefore) < call.n
        /\ Cardinality(DaysBefore) >= call.n =>
              \E j \in DaysBefore :
                  /\ Cardinality({m \in DaysBefore : m >= j}) = call.n
                  /\ returned[1] = call.closes[j + 1]

\* closes [10, null, 30, 40] and base index 3: two trading days back is 10
C19_Witness ==
    /\ Returned("findPriceNTradingDaysBack")
    /\ call.closes = <<Some(1000), Null, Some(3000), Some(4000)>>
    /\ call.baseIdx = 3
    /\ call.n = 2
    /\ returned = Some(Some(1000))

\* C20: calcChangeRate(current, past) is null exactly when current is null,
\* past is null or past is 0; otherwise it is (current - past) / past in
\* hundredths of a percent rounded to the nearest integer, halves upward
\* (Math.round): the integer r with r <= x + 1/2 < r + 1 for
\* x = (current - past) * 10000 / past.
C20_ChangeRate ==
    Returned("calcChangeRate") =>
        LET c == call.currentPrice
            q == call.pastPrice
            r == returned[1]
        IN  /\ r = Null <=> (c = Null \/ q = Null \/ q = Some(0))
            /\ r # Null =>
                  /\ IsNumber(r)
                  /\ LET twice == 2 * (c[1] - q[1]) * 10000 + q[1]
                     IN  IF q[1] > 0
                         THEN 2 * q[1] * r[1] <= twice
                                /\ twice < 2 * q[1] * (r[1] + 1)
                         ELSE 2 * q[1] * r[1] >= twice
                                /\ twice > 2 * q[1] * (r[1] + 1)

\* calcChangeRate(110, 100) = 10.00
C20_Witness ==
    /\ Returned("calcChangeRate")
    /\ call.currentPrice = Some(11000)
    /\ call.pastPrice = Some(10000)
    /\ returned = Some(Some(1000))

-----------------------------------------------------------------------------
(* Properties of the identifier resolver, under CallSpec *)

\* a string without its leading and trailing white space, stated without
\* the trim of the model: the part from its first to its last character
\* that is not white space
TrimmedOf(str) ==
    LET solid == {k \in 1..Len(str) : str[k] \notin WhiteSpace}
    IN  IF solid = {} THEN <<>>
        ELSE SubSeq(str, CHOOSE a \in solid : \A k \in solid : a <= k,
                         CHOOSE b \in solid : \A k \in solid : k <= b)

\* no ticker can be derived from a trimmed identifier
Unresolvable(id) == Len(id) < 4 \/ \E k \in 1..4 : id[k] \notin AlphaNum

\* the rows (1-based positions) of `call` that have an identifier cell
\* which is not blank, and the trimmed identifier of such a row
IdentifiedRows ==
    {r \in 1..Len(call.rows) :
        Len(call.rows[r]) > CodeColumn
            /\ TrimmedOf(call.rows[r][CodeColumn + 1]) # <<>>}
IdOfRow(r) == TrimmedOf(call.rows[r][CodeColumn + 1])
FirstRowOf(id) ==
    CHOOSE r \in IdentifiedRows :
        IdOfRow(r) = id /\ \A q \in IdentifiedRows : IdOfRow(q) = id => r <= q

\* C21: getUniqueStocks returns one StockRef for each distinct trimmed
\* identifier of the rows and no other, ordered by the first row of each
\* identifier, and each StockRef carries the date cell of that first row,
\* whatever the later rows with the same identifier hold.
C21_FirstOccurrenceWins ==
    Returned("getUniqueStocks") =>
        LET out == returned[1]
        IN  /\ {out[k].rawCode : k \in 1..Len(out)}
                  = {IdOfRow(r) : r \in IdentifiedRows}
            /\ \A a, b \in 1..Len(out) :
                  a < b => FirstRowOf(out[a].rawCode) < FirstRowOf(out[b].rawCode)
            /\ \A k \in 1..Len(out) :
                  out[k].date
                      = call.rows[FirstRowOf(out[k].rawCode)][call.dateColIdx + 1]

\* three rows: an identifier, another one, and the first identifier again,
\* written differently and with another date
C21_Witness ==
    /\ Returned("getUniqueStocks")
    /\ Len(call.rows) = 3
    /\ \A r \in 1..3 : Len(call.rows[r]) > CodeColumn
    /\ call.rows[1][5] = <<"8", "2", "2", "7", "0", " ">>
    /\ call.rows[2][5] = <<"A", "B", "1">>
    /\ call.rows[3][5] = <<" ", "8", "2", "2", "7", "0">>
    /\ call.rows[1][1] # call.rows[3][1]
    /\ Len(returned[1]) = 2
    /\ returned[1][1].date = call.rows[1][1]

\* the rows of `call` that have the identifier column
RowsWithIdCell == {r \in 1..Len(call.rows) : Len(call.rows[r]) > CodeColumn}

\* the resolver output holds a StockRef without ticker for the identifier,
\* and the lookup of that StockRef reports an error whatever the service
\* would have answered
CountedWithoutTicker(out, id) ==
    \E k \in 1..Len(out) :
        /\ out[k].rawCode = id
        /\ out[k].ticker = Null
        /\ \A reply \in AllReplies :
              Truthy(fetchClosingPrice(out[k].ticker, out[k].date, reply).error)

\* C22 (as amended): every row whose trimmed identifier is not empty and
\* has fewer than 4 characters, or has a character among its first 4 that
\* is not alphanumeric, is counted as a stock: the output of
\* getUniqueStocks holds a StockRef for that identifier with ticker null,
\* and the lookup of that StockRef reports an error.
C22_UnresolvableCounted ==
    Returned("getUniqueStocks") =>
        \A r \in RowsWithIdCell :
            LET id == TrimmedOf(call.rows[r][CodeColumn + 1])
            IN  (id # <<>> /\ Unresolvable(id))
                    => CountedWithoutTicker(returned[1], id)

\* C22 (as stated): the same for every row whose trimmed identifier has
\* fewer than 4 characters, the blank identifier included.
C22_AsStated ==
    Returned("getUniqueStocks") =>
        \A r \in RowsWithIdCell :
            LET id == TrimmedOf(call.rows[r][CodeColumn + 1])
            IN  Unresolvable(id) => CountedWithoutTicker(returned[1], id)

\* a short identifier and one with a hyphen, next to a resolvable one
C22_Witness ==
    /\ Returned("getUniqueStocks")
    /\ Len(call.rows) = 3
    /\ RowsWithIdCell = 1..3
    /\ call.rows[1][5] = <<"A", "B", "1">>
    /\ call.rows[2][5] = <<"8", "2", "2", "7", "0", " ">>
    /\ call.rows[3][5] = <<"7", "2", "-", "3", "X">>
    /\ Len(returned[1]) = 3
    /\ returned[1][1].ticker = Null
    /\ returned[1][2].ticker # Null
    /\ returned[1][3].ticker = Null

\* C23: toTicker returns null for every identifier whose trimmed form has
\* fewer than 4 characters, and for every identifier whose trimmed form has
\* a character that is not alphanumeric among its first 4.
C23_NoTickerForMalformed ==
    Returned("toTicker") =>
        LET id == TrimmedOf(call.rawCode)
        IN  /\ Len(id) < 4 => returned[1] = Null
            /\ (Len(id) >= 4 /\ \E k \in 1..4 : id[k] \notin AlphaNum)
                    => returned[1] = Null

\* an identifier of 5 characters whose fourth is a hyphen, inside margins
C23_Witness ==
    /\ Returned("toTicker")
    /\ call.rawCode = <<" ", "7", "a", "7", "-", "7", "\t", " ">>
    /\ returned[1] = Null

\* C24: for every identifier whose trimmed form has at least 4 characters,
\* the first 4 of them alphanumeric, toTicker returns those 4 characters
\* followed by ".T", whatever white space surrounds the identifier and
\* whatever follows its fourth character.
C24_TickerIsFirstFour ==
    Returned("toTicker") =>
        LET id == TrimmedOf(call.rawCode)
        IN  (Len(id) >= 4 /\ \A k \in 1..4 : id[k] \in AlphaNum)
                => returned[1] = Some(<<id[1], id[2], id[3], id[4], ".", "T">>)

\* " 7a77-" with a trailing margin: the hyphen is the fifth character
C24_Witness ==
    /\ Returned("toTicker")
    /\ call.rawCode = <<" ", "7", "a", "7", "7", "-", "\t", " ">>
    /\ returned[1] = Some(<<"7", "a", "7", "7", ".", "T">>)

-----------------------------------------------------------------------------
(* Properties of the export, under CallSpec; the rows of the data sets of  *)
(* GenerateOutputCSVCalls have no comma and no line break in a cell, so a  *)
(* line of the text is a row and a comma ends a field                      *)

\* the pieces of str between the occurrences of ch
Pieces(str, ch) ==
    LET hits == {k \in 1..Len(str) : str[k] = ch}
        hit(n) == CHOOSE k \in hits : Cardinality({q \in hits : q < k}) = n - 1
        from(n) == IF n = 1 THEN 1 ELSE hit(n - 1) + 1
        upto(n) == IF n = Cardinality(hits) + 1 THEN Len(str) ELSE hit(n) - 1
    IN  [n \in 1..(Cardinality(hits) + 1) |-> SubSeq(str, from(n), upto(n))]

\* the exported text without the carriage returns that end its lines
ExportedLines ==
    LET lines == Pieces(returned[1], "\n")
    IN  [n \in 1..Len(lines) |->
            IF n < Len(lines) /\ lines[n] # <<>>
                    /\ lines[n][Len(lines[n])] = "\r"
            THEN SubSeq(lines[n], 1, Len(lines[n]) - 1)
            ELSE lines[n]]

\* the fields of the line of the r-th data row, and the 7 fields the export
\* adds at its end: price, dividend, yield and the four changes
FieldsOfRow(r) ==
    Pieces(ExportedLines[Len(call.data[1].metadata) + 1 + r], ",")
DerivedFields(r) ==
    SubSeq(FieldsOfRow(r), Len(FieldsOfRow(r)) - 6, Len(FieldsOfRow(r)))

\* the trimmed identifier of the r-th data row ('' when the row has no
\* identifier cell) and whether closingPrices has a result for it
CodeOfRow(r) ==
    IF Len(call.data[1].rows[r]) > CodeColumn
    THEN TrimmedOf(call.data[1].rows[r][CodeColumn + 1])
    ELSE <<>>
HasResult(r) == CodeOfRow(r) \in DOMAIN call.results

\* text is a decimal with two places whose value is dividend / price * 100
\* rounded to the nearest hundredth (dividend in hundredths, price in tenths)
IsYieldOf(text, dividend, price) ==
    /\ Len(text) >= 4
    /\ text[Len(text) - 2] = "."
    /\ \A k \in (1..Len(text)) \ {Len(text) - 2} : text[k] \in DigitSet
    /\ LET digits == SubSeq(text, 1, Len(text) - 3)
                        \o SubSeq(text, Len(text) - 1, Len(text))
           value[k \in 0..Len(digits)] ==
                IF k = 0 THEN 0 ELSE 10 * value[k - 1] + DigitVal(digits[k])
       IN  2 * Abs(value[Len(digits)] * price - dividend * 1000) <= price

\* the fields of price, dividend and yield of the r-th data row are as C25
\* says
FieldsAsClaimed(r) ==
    LET f == DerivedFields(r)
        res == call.results[CodeOfRow(r)]
        computable == /\ HasResult(r)
                      /\ res.price # Null /\ res.dividend # Null
                      /\ IsNumber(res.price) /\ res.price[1] > 0
    IN  /\ f[1] = NAText <=> (~HasResult(r) \/ res.price = Null)
        /\ f[2] = NAText <=> (~HasResult(r) \/ res.dividend = Null)
        /\ IF computable
           THEN IsYieldOf(f[3], res.dividend[1], res.price[1])
           ELSE f[3] = NAText

\* C25: in the export the yield field of a row is the number
\* dividend / price * 100 when the row's result has a price and a dividend
\* that are not null and the price is > 0, and N/A in every other case; the
\* price field and the dividend field are N/A exactly when the value is null
\* or the row has no result.
C25_DerivedFields ==
    Returned("generateOutputCSV") =>
        \A r \in 1..Len(call.data[1].rows) : FieldsAsClaimed(r)

\* the same for the rows whose identifier is not the name of a member every
\* object inherits
C25_OwnResultsOnly ==
    Returned("generateOutputCSV") =>
        \A r \in 1..Len(call.data[1].rows) :
            CodeOfRow(r) \notin InheritedNames => FieldsAsClaimed(r)

\* C26: the export is the metadata lines, one header line and one line for
\* each data row, in the order of the rows; a row whose identifier an
\* earlier row has is exported too, with the same result values.
C26_OneLinePerRow ==
    Returned("generateOutputCSV") =>
        LET data == call.data[1]
            known == Len(data.metadata)
        IN  /\ Len(ExportedLines) = known + 1 + Len(data.rows)
            /\ \A n \in 1..known : ExportedLines[n] = data.metadata[n]
            /\ Pieces(ExportedLines[known + 1], ",") = headerLabels
            /\ \A r \in 1..Len(data.rows) :
                  LET kept == Min(9, Len(data.rows[r]))
                  IN  /\ Len(FieldsOfRow(r)) = kept + 7
                      /\ \A c \in 1..kept :
                            FieldsOfRow(r)[c] = TrimmedOf(data.rows[r][c])
            /\ \A r, q \in 1..Len(data.rows) :
                  CodeOfRow(r) = CodeOfRow(q)
                      => DerivedFields(r) = DerivedFields(q)

\* two rows with the identifier 82270, written differently, the second with
\* a tenth cell, and a result with price and dividend for it
C26_Witness ==
    /\ Returned("generateOutputCSV")
    /\ Len(call.data[1].rows) = 2
    /\ call.data[1].metadata # <<>>
    /\ CodeOfRow(1) = <<"8", "2", "2", "7", "0">>
    /\ CodeOfRow(2) = <<"8", "2", "2", "7", "0">>
    /\ call.data[1].rows[1] # call.data[1].rows[2]
    /\ Len(call.data[1].rows[2]) = 10
    /\ HasResult(1)
    /\ DerivedFields(2)[1] = <<"1", "1", "0">>
    /\ DerivedFields(2)[3] = <<"2", ".", "2", "8">>

\* C27: the text exported from a parsed data set parses again, with the same
\* metadata lines and, in every data row, the same first 9 cells.
C27_RoundTrip ==
    (Returned("parseCSV") /\ call.data # Null) =>
        LET data == call.data[1]
            again == returned[1]
        IN  /\ again.threw = Null
            /\ again.metadata = data.metadata
            /\ Len(again.rows) = Len(data.rows)
            /\ \A r \in 1..Len(data.rows) :
                  SubSeq(again.rows[r], 1, 9) = SubSeq(data.rows[r], 1, 9)

-----------------------------------------------------------------------------
(* Properties of the ingest and of the error list, under Spec *)

\* C28: an ingest that fails (parseCSV throws) starts no lookup and leaves
\* parsedData, closingPrices and errorMessages as they were.
C28_FailedIngestChangesNothing ==
    [][lastEvent' = "loadFailed" =>
            /\ parsedData' = parsedData
            /\ closingPrices' = closingPrices
            /\ errorMessages' = errorMessages
            /\ issued' = issued
            /\ pending' = pending
            /\ isFetching' = isFetching]_vars

\* an ingest has failed while results and error records of a run whose file
\* was removed are there, and lookups are still pending
C28_Witness ==
    /\ lastEvent = "loadFailed"
    /\ parsedData = Null
    /\ DOMAIN closingPrices # {}
    /\ errorMessages # <<>>
    /\ pending # {}

-----------------------------------------------------------------------------
(* Properties of the dividend selection, under CallSpec *)

\* the dividend events of the response of `call`
EventsOfCall == IF call.dividends = Null THEN <<>> ELSE call.dividends[1]

\* stored (in hundredths) is amount (in thousandths) rounded to 2 decimals
RoundedTo2(stored, amount) == 10 * stored <= amount + 5 /\ amount + 5 < 10 * stored + 10

\* C29: the dividend of a lookup that succeeds is the amount (rounded to 2
\* decimals) of an event of the response whose timestamp is nearest to the
\* target timestamp, be it before or after the target; without events the
\* dividend is null, whatever the price is.
C29_NearestDividend ==
    (Returned("fetchClosingPrice") /\ returned[1].error = Null) =>
        IF EventsOfCall = <<>> THEN returned[1].dividend = Null
        ELSE \E k \in 1..Len(EventsOfCall) :
                /\ \A j \in 1..Len(EventsOfCall) :
                      Abs(EventsOfCall[k].ts - call.targetTs)
                          <= Abs(EventsOfCall[j].ts - call.targetTs)
                /\ returned[1].dividend # Null
                /\ RoundedTo2(returned[1].dividend[1], EventsOfCall[k].amount)

\* events 3 days before and 1 day after the target: the one after is taken
C29_Witness ==
    /\ Returned("fetchClosingPrice")
    /\ Len(EventsOfCall) = 2
    /\ EventsOfCall[1].ts = DayTs(-3)
    /\ EventsOfCall[2].ts = DayTs(1)
    /\ returned[1].price # Null
    /\ returned[1].dividend = Some(501)

\* the place in the StockRef list of the identifier of the n-th error
\* record, and the batch (counted from 0) of that StockRef
StockOfRecord(n) ==
    CHOOSE k \in 1..Total : stocks[k].rawCode = errorMessages[n].code
BatchOfRecord(n) == (StockOfRecord(n) - 1) \div BATCH_SIZE

\* list b is list a with records added at its end
Extends(b, a) == Len(a) <= Len(b) /\ SubSeq(b, 1, Len(a)) = a

\* C30: the error list is in the order in which the lookups completed: the
\* step in which a lookup completes leaves the list as it is or adds one
\* record, that of this lookup, at its end, and the step that opens the next
\* batch only adds, at the end, the records of that batch's StockRefs
\* without ticker; so the records of an earlier batch come before those of
\* a later batch; and the step that starts a run leaves no record in the
\* list but those of its first batch.
C30_ArrivalOrder ==
    /\ [][lastEvent' = "lookup" =>
            \/ errorMessages' = errorMessages
            \/ /\ Len(errorMessages') = Len(errorMessages) + 1
               /\ Extends(errorMessages', errorMessages)
               /\ \E k \in pending \ pending' :
                     errorMessages'[Len(errorMessages')].code
                         = stocks[k].rawCode]_vars
    /\ [][lastEvent' = "timer" =>
            /\ Extends(errorMessages', errorMessages)
            /\ \A n \in (Len(errorMessages) + 1)..Len(errorMessages') :
                  \E k \in BatchIndices(i', Total) :
                     /\ stocks[k].ticker = Null
                     /\ errorMessages'[n].code = stocks[k].rawCode]_vars
    /\ [](\A m, n \in 1..Len(errorMessages) :
            m < n => BatchOfRecord(m) <= BatchOfRecord(n))
    /\ [][RunStarts =>
            \A n \in 1..Len(errorMessages') :
                \E k \in BatchIndices(0, Len(stocks')) :
                    /\ stocks'[k].ticker = Null
                    /\ errorMessages'[n].code = stocks'[k].rawCode
                    /\ \A m \in 1..Len(errorMessages') :
                          errorMessages'[m].code = errorMessages'[n].code
                              => m = n]_vars

\* a run over three StockRefs has ended with three failures: the second
\* StockRef has no ticker and failed when the batch was opened, then the
\* lookup of the third failed, then that of the first
C30_Witness ==
    /\ RunJustEnded
    /\ Total = 3
    /\ Len(errorMessages) = 3
    /\ StockOfRecord(1) = 2
    /\ StockOfRecord(2) = 3
    /\ StockOfRecord(3) = 1

-----------------------------------------------------------------------------
(* Request window *)

\* the integer a decimal numeral (with an optional minus sign) denotes
RECURSIVE NumeralValue(_)
NumeralValue(text) ==
    IF text = <<>> THEN 0
    ELSE 10 * NumeralValue(SubSeq(text, 1, Len(text) - 1))
            + DigitVal(text[Len(text)])

IsNumeral(text) ==
    LET digits == IF text # <<>> /\ text[1] = "-" THEN Tail(text) ELSE text
    IN  digits # <<>> /\ \A k \in 1..Len(digits) : digits[k] \in DigitSet

SignedValue(text) ==
    IF text[1] = "-" THEN -NumeralValue(Tail(text)) ELSE NumeralValue(text)

\* C31: whenever a lookup sends a request for a target date whose timestamp
\* is t, the request's period1 is the numeral of t - 45*86400 and its
\* period2 the numeral of t + 14*86400; when the target date is no date (t
\* is NaN) both are NaN.
C31_RequestWindow ==
    (Returned("request") /\ returned[1] # Null) =>
        LET sent == returned[1][1]
            t == targetTsOf(call.targetDateStr)
        IN  IF IsNumber(t)
            THEN /\ IsNumeral(sent.period1) /\ IsNumeral(sent.period2)
                 /\ SignedValue(sent.period1) = t[1] - 45 * 86400
                 /\ SignedValue(sent.period2) = t[1] + 14 * 86400
                 /\ SignedValue(sent.period2) - SignedValue(sent.period1)
                        = 59 * 86400
            ELSE /\ ~IsNumeral(sent.period1)
                 /\ ~IsNumeral(sent.period2)

\* a request for a date early enough that the window opens before the epoch
C31_Witness ==
    /\ Returned("request") /\ returned[1] # Null
    /\ IsNumber(targetTsOf(call.targetDateStr))
    /\ SignedValue(returned[1][1].period1) < 0
    /\ SignedValue(returned[1][1].period2) = 14 * 86400

-----------------------------------------------------------------------------
(* Results and the loaded file *)

\* the trimmed identifiers of the rows of the loaded data
LoadedIdentifiers ==
    IF parsedData = Null THEN {}
    ELSE {Trim(parsedData[1].rows[r][CodeColumn + 1]) :
            r \in {q \in 1..Len(parsedData[1].rows) :
                      Len(parsedData[1].rows[q]) > CodeColumn}}

\* C32: in every reachable state every key of closingPrices is the trimmed
\* identifier of a row of the loaded parsedData, and closingPrices and
\* errorMessages are empty while no file is loaded.
C32_ResultsOfLoadedFile ==
    /\ DOMAIN closingPrices \subseteq LoadedIdentifiers
    /\ parsedData = Null => closingPrices = <<>> /\ errorMessages = <<>>

-----------------------------------------------------------------------------
(* Export and runs *)

\* C33: in every reachable state in which the download button is enabled
\* no run is in progress.
C33_NoExportDuringRun == ~downloadBtnDisabled => ~isFetching

-----------------------------------------------------------------------------
(* Results and the completion counter *)

\* the number of entries of the results map
Entries == Cardinality(OwnKeys(closingPrices))

\* the entries, the counter and the error list after lookup completions
Coherent ==
    /\ Entries = completed
    /\ 0 <= completed /\ completed <= Len(stocks)
    /\ Len(errorMessages) <= completed

\* C34: in a run without file load or removal the results map has as many
\* entries as the completion counter says, 0 <= completed <= total and the
\* error list is no longer than completed.  Stated step by step: this holds
\* when a run has started (the lookups without ticker of the first batch
\* have completed in that step), and every later step of the run in which
\* lookups complete (an answer of the upstream, the dispatch of the next
\* batch) keeps it; steps that load or remove a file are not looked at.
C34_CounterMatchesResults ==
    /\ [][RunStarts => Coherent']_vars
    /\ [][(lastEvent' \in {"lookup", "timer"} /\ Coherent) => Coherent']_vars

\* the same for runs over files without the identifier __proto__
C34_OrdinaryKeys ==
    /\ [][(RunStarts /\ ProtoName \notin RawCodes') => Coherent']_vars
    /\ [][(lastEvent' \in {"lookup", "timer"} /\ Coherent
              /\ ProtoName \notin RawCodes)
            => Coherent']_vars

-----------------------------------------------------------------------------
(* Selection on arrays of different lengths *)

\* the function has returned, called on a series or on a pair with a
\* shorter closes array
ReturnedOnAnyPair(fn) ==
    /\ call.fn \in {fn, fn \o " (short closes)"}
    /\ returned # Null

\* C35: for every pair of timestamps and closes, closes shorter than
\* timestamps included, findClosestPriceWithIndex returns index -1 with
\* price null, or an index of closes at which closes holds a number,
\* together with that number; and a lookup that returns with error null
\* returns a price that is a number.
C35_SelectedCloseIsNumber ==
    /\ ReturnedOnAnyPair("findClosestPriceWithIndex") =>
          LET idx == returned[1].index
          IN  \/ idx = -1 /\ returned[1].price = Null
              \/ /\ idx \in 0..(Len(call.closes) - 1)
                 /\ IsNumber(call.closes[idx + 1])
                 /\ returned[1].price = call.closes[idx + 1]
    /\ ReturnedOnAnyPair("fetchClosingPrice") =>
          (returned[1].error = Null => IsNumber(returned[1].price))

\* the same on series: closes as long as timestamps
C35_OnSeries ==
    /\ Returned("findClosestPriceWithIndex") =>
          LET idx == returned[1].index
          IN  \/ idx = -1 /\ returned[1].price = Null
              \/ /\ idx \in 0..(Len(call.closes) - 1)
                 /\ IsNumber(call.closes[idx + 1])
                 /\ returned[1].price = call.closes[idx + 1]
    /\ Returned("fetchClosingPrice") =>
          (returned[1].error = Null => IsNumber(returned[1].price))

====
